---- MODULE Spec2Model ----
(***************************************************************************)
(* Job execution engine of nomos: parameter validation and merging, the    *)
(* JobResult id allocator, the executor supervisor (submit / stop /        *)
(* completion observer), the engine task and the process table it drives.  *)
(***************************************************************************)
EXTENDS Integers, Sequences, FiniteSets

\* ------------------------------------------------------------------ bounds

\* Largest number of entries in a script's or a job's parameter list.
MaxParams == 2

\* ------------------------------------------------------------ option values

\* Option::None of Option<ScriptParameterType>.
NoneV == "None"

\* ScriptParameterType values: the script defaults, the Job defaults and the
\* caller-supplied values are told apart by their text.
ScriptDefaults == {"d"}

JobDefaults == {"j"}

CallerValues == {"c"}

\* Parameter names.
ParamNames == {"p", "q"}

\* ScriptParameter {name, required, default}; the description plays no role.
ScriptParameter ==
    [name : ParamNames, required : BOOLEAN, default : ScriptDefaults \cup {NoneV}]

\* JobParameterDefinition {name, default}.
JobParameterDefinition == [name : ParamNames, default : JobDefaults \cup {NoneV}]

\* All sequences over S of length at most n.
SeqUpTo(S, n) == UNION {[1..k -> S] : k \in 0..n}

\* HashMap<String, ScriptParameterType>: a function on the set of its keys.
EmptyMap == [k \in {} |-> NoneV]

MapInsert(m, k, v) == [x \in (DOMAIN m) \cup {k} |-> IF x = k THEN v ELSE m[x]]

MapGet(m, k) == IF k \in DOMAIN m THEN m[k] ELSE NoneV

\* Caller-supplied parameter maps (bare names as keys).
ProvidedMaps == UNION {[D -> CallerValues] : D \in SUBSET ParamNames}

\* ------------------------------------------------- Job::validate_parameters

\* self.parameters.iter().any(|p| p.name == parameter.name)
IsParameterDefined(jobParams, name) ==
    \E i \in 1..Len(jobParams) : jobParams[i].name = name

\* The loop of validate_parameters: the names pushed to missing_parameters.
RECURSIVE MissingParameters(_, _)
MissingParameters(jobParams, scriptParams) ==
    IF scriptParams = <<>> THEN <<>>
    ELSE LET parameter == Head(scriptParams)
             rest == MissingParameters(jobParams, Tail(scriptParams))
         IN  IF /\ ~IsParameterDefined(jobParams, parameter.name)
                /\ parameter.default = NoneV
                /\ parameter.required
             THEN <<parameter.name>> \o rest
             ELSE rest

\* [String]::join(sep): the pieces of the joined text, in order.
RECURSIVE Join(_, _)
Join(names, sep) ==
    IF names = <<>> THEN <<>>
    ELSE IF Len(names) = 1 THEN names
    ELSE <<Head(names), sep>> \o Join(Tail(names), sep)

MissingPrefix == "Missing required parameters: "

\* Variant of validate_parameters that does not look at `required`.
ValidateParametersIgnoringRequired(jobParams, scriptParams) ==
    LET opt == [i \in 1..Len(scriptParams) |->
                   [scriptParams[i] EXCEPT !.required = TRUE]]
        missing == MissingParameters(jobParams, opt)
    IN  IF missing # <<>>
        THEN [ok |-> FALSE, err |-> <<MissingPrefix>> \o Join(missing, ", ")]
        ELSE [ok |-> TRUE, err |-> <<>>]

\* Job::validate_parameters: Ok(()) or Err(format!("Missing required parameters: {}", ..)).
ValidateParameters(jobParams, scriptParams) ==
    LET missing == MissingParameters(jobParams, scriptParams)
    IN  IF missing # <<>>
        THEN [ok |-> FALSE, err |-> <<MissingPrefix>> \o Join(missing, ", ")]
        ELSE [ok |-> TRUE, err |-> <<>>]

\* --------------------------------------------------- Job::merged_parameters

\* self.parameters.iter().find(|p| p.name == name): index of the first match, 0 if none.
FindJobParameter(jobParams, name) ==
    IF IsParameterDefined(jobParams, name)
    THEN CHOOSE i \in 1..Len(jobParams) :
            /\ jobParams[i].name = name
            /\ \A k \in 1..(i - 1) : jobParams[k].name # name
    ELSE 0

\* Variant of resolve_parameter_value with the spec's three-level precedence.
ResolveParameterValueThreeLevel(jobParams, scriptParameter, provided) ==
    LET i == FindJobParameter(jobParams, scriptParameter.name)
        jobDefault == IF i = 0 THEN NoneV ELSE jobParams[i].default
    IN  IF scriptParameter.name \in DOMAIN provided
        THEN provided[scriptParameter.name]
        ELSE IF jobDefault # NoneV THEN jobDefault
        ELSE scriptParameter.default

\* Job::resolve_parameter_value.
ResolveParameterValue(jobParams, scriptParameter, provided) ==
    LET i == FindJobParameter(jobParams, scriptParameter.name)
    IN  IF i # 0
        THEN IF jobParams[i].name \in DOMAIN provided
             THEN provided[jobParams[i].name]
             ELSE jobParams[i].default
        ELSE scriptParameter.default

\* Variant that uses the bare name as the key.
MergedKeyBare(name) == <<"", name>>

\* format!("parameters.{}", name): the key as the pair of its two parts.
MergedKey(name) == <<"parameters.", name>>

\* Job::merged_parameters: the loop over script.parameters, inserting into `acc`.
RECURSIVE MergedParametersFrom(_, _, _, _)
MergedParametersFrom(acc, jobParams, scriptParams, provided) ==
    IF scriptParams = <<>> THEN acc
    ELSE LET parameter == Head(scriptParams)
             value == ResolveParameterValue(jobParams, parameter, provided)
             next == IF value # NoneV
                     THEN MapInsert(acc, MergedKey(parameter.name), value)
                     ELSE acc
         IN  MergedParametersFrom(next, jobParams, Tail(scriptParams), provided)

MergedParameters(jobParams, scriptParams, provided) ==
    MergedParametersFrom(EmptyMap, jobParams, scriptParams, provided)

\* ------------------------------------------------------------------ bounds

\* Number of submissions (calls of execute_with_script) in a behaviour.
NumSubmissions == 2

\* Largest number of steps of a submitted script.
MaxSteps == 2

\* Result ids 1..MaxPre may already be on disk when the process starts.
MaxPre == 2

\* Number of OS processes created in a behaviour (shells and their descendants).
MaxPids == 3

\* Largest number of stop_job calls that return Ok for one id that is recorded.
MaxStopOk == 2

Slots == 1..NumSubmissions

\* The supervisor specification follows the run of one submission through the
\* engine, the process table and the observer; concurrent submissions are the
\* subject of SpecIds.
RunSlots == {1}

\* Result ids that can occur: every call of next_job_result_id advances the
\* counter past the ids on disk, by one per submission after that.
Ids == 1..(MaxPre + 1 + NumSubmissions)

Pids == 1..MaxPids

\* The server process, parent of every spawned shell.
ServerPid == 0

\* The process orphans are re-parented to.
InitPid == -1

\* ------------------------------------------------------- decimal text (ids.txt)

Digit == <<"0", "1", "2", "3", "4", "5", "6", "7", "8", "9">>

IsDigit(c) == \E d \in 1..10 : Digit[d] = c

DigitValue(c) == (CHOOSE d \in 1..10 : Digit[d] = c) - 1

\* u64::to_string
RECURSIVE ToString(_)
ToString(n) ==
    IF n < 10 THEN <<Digit[n + 1]>>
    ELSE ToString(n \div 10) \o <<Digit[(n % 10) + 1]>>

IsWhitespace(c) == c \in {" ", "\n"}

\* str::trim
RECURSIVE TrimStart(_)
TrimStart(t) ==
    IF t # <<>> /\ IsWhitespace(Head(t)) THEN TrimStart(Tail(t)) ELSE t

RECURSIVE TrimEnd(_)
TrimEnd(t) ==
    IF t # <<>> /\ IsWhitespace(t[Len(t)]) THEN TrimEnd(SubSeq(t, 1, Len(t) - 1)) ELSE t

Trim(t) == TrimEnd(TrimStart(t))

RECURSIVE DigitsValue(_)
DigitsValue(t) ==
    IF t = <<>> THEN 0
    ELSE 10 * DigitsValue(SubSeq(t, 1, Len(t) - 1)) + DigitValue(t[Len(t)])

\* content.trim().parse::<u64>().unwrap_or(0)
ParseOrZero(content) ==
    LET t == Trim(content)
    IN  IF t # <<>> /\ \A i \in 1..Len(t) : IsDigit(t[i])
        THEN DigitsValue(t)
        ELSE 0

\* ------------------------------------------------- parameter substitution

\* Number of pieces a template is put together from.
MaxPieces == 2

\* Passes of the substitution loop that are followed before the call counts as
\* not returning.
MaxScans == 10

\* Texts are sequences of characters.
Open == <<"$", "(">>

Close == ")"

\* The token $(key).
Token(key) == Open \o key \o <<Close>>

SubstKeys == {<<"k">>, <<"j">>}

Pieces == {Token(<<"k">>), Token(<<"j">>), <<"x">>, Open, <<Close>>}

RECURSIVE Templates(_)
Templates(n) ==
    IF n = 0 THEN {<<>>}
    ELSE Templates(n - 1) \cup {t \o p : t \in Templates(n - 1), p \in Pieces}

\* ScriptParameterType values: the variant and its payload (the fields of the
\* other variants are unused).
NoPayload == [type |-> "", s |-> <<>>, n |-> 0, b |-> FALSE, a |-> <<>>]

StringValue(s) == [NoPayload EXCEPT !.type = "String", !.s = s]

NumberValue(n) == [NoPayload EXCEPT !.type = "Number", !.n = n]

BooleanValue(b) == [NoPayload EXCEPT !.type = "Boolean", !.b = b]

StringArrayValue(a) == [NoPayload EXCEPT !.type = "StringArray", !.a = a]

SubstValues ==
    {StringValue(<<>>), StringValue(<<"x">>), StringValue(Token(<<"j">>)),
     NumberValue(-7), BooleanValue(TRUE), StringArrayValue(<<<<"a">>, <<"b">>>>)}

SubstMaps == UNION {[K -> SubstValues] : K \in SUBSET SubstKeys}

\* i64::to_string
NumberToString(n) == IF n < 0 THEN <<"-">> \o ToString(-n) ELSE ToString(n)

\* bool::to_string
BooleanToString(b) ==
    IF b THEN <<"t", "r", "u", "e">> ELSE <<"f", "a", "l", "s", "e">>

\* [String]::join(", ")
RECURSIVE JoinTexts(_)
JoinTexts(a) ==
    IF a = <<>> THEN <<>>
    ELSE IF Len(a) = 1 THEN a[1]
    ELSE a[1] \o <<",", " ">> \o JoinTexts(Tail(a))

\* The match that converts a value to a string.
RenderValue(value) ==
    CASE value.type = "String" -> value.s
      [] value.type = "Credential" -> value.s
      [] value.type = "Password" -> value.s
      [] value.type = "Boolean" -> BooleanToString(value.b)
      [] value.type = "Number" -> NumberToString(value.n)
      [] value.type = "StringArray" -> JoinTexts(value.a)

\* pat occurs in text at position i.
OccursAt(text, pat, i) ==
    /\ i + Len(pat) - 1 <= Len(text)
    /\ \A j \in 1..Len(pat) : text[i + j - 1] = pat[j]

\* str::find: the position of the first occurrence, 0 for None.
Find(text, pat) ==
    IF \E i \in 1..Len(text) : OccursAt(text, pat, i)
    THEN CHOOSE i \in 1..Len(text) :
            /\ OccursAt(text, pat, i)
            /\ \A h \in 1..(i - 1) : ~OccursAt(text, pat, h)
    ELSE 0

\* str::replace: every non-overlapping occurrence of `from`, left to right.
RECURSIVE Replace(_, _, _)
Replace(text, from, to) ==
    LET i == Find(text, from)
    IN  IF i = 0 THEN text
        ELSE SubSeq(text, 1, i - 1) \o to
                \o Replace(SubSeq(text, i + Len(from), Len(text)), from, to)

\* Results of substitute_parameters.
NoResult == [kind |-> "", s |-> <<>>, arr |-> <<>>, msg |-> <<>>]

SubstSingle(s) == [NoResult EXCEPT !.kind = "Single", !.s = s]

SubstMultiple(arr) == [NoResult EXCEPT !.kind = "Multiple", !.arr = arr]

SubstNone == [NoResult EXCEPT !.kind = "None"]

MissingBracket == [NoResult EXCEPT !.kind = "Err", !.msg = <<"Missing closing bracket ')'">>]

NotFoundError(key) ==
    [NoResult EXCEPT !.kind = "Err", !.msg = <<"Parameter '", key, "' not found">>]

\* The loop has not ended after MaxScans passes.
NoReturn == [NoResult EXCEPT !.kind = "NoReturn"]

\* The while loop of substitute_parameters on the working copy `result`.
RECURSIVE SubstituteFrom(_, _, _, _)
SubstituteFrom(result, parameters, optional, scans) ==
    LET start == Find(result, Open)
        remaining == SubSeq(result, start, Len(result))
        end == Find(remaining, <<Close>>)
        full_param_ref == SubSeq(remaining, 1, end)
        param_name == SubSeq(remaining, 3, end - 1)
        pure == start = 1 /\ end = Len(remaining)
    IN  IF start = 0 THEN SubstSingle(result)
        ELSE IF scans = 0 THEN NoReturn
        ELSE IF end = 0 THEN MissingBracket
        ELSE IF param_name \notin DOMAIN parameters
        THEN IF optional /\ pure THEN SubstNone ELSE NotFoundError(param_name)
        ELSE LET param_value == parameters[param_name]
             IN  IF pure /\ param_value.type = "StringArray"
                 THEN SubstMultiple(param_value.a)
                 ELSE SubstituteFrom(
                          Replace(result, full_param_ref, RenderValue(param_value)),
                          parameters, optional, scans - 1)

\* <String as ParameterSubstitution>::substitute_parameters
SubstituteParameters(template, parameters, optional) ==
    SubstituteFrom(template, parameters, optional, MaxScans)

\* ------------------------------------------------------------- JobResult

\* ScriptStatus of a step as text.
StatusOf(is_success) == IF is_success THEN "success" ELSE "failed"

\* Default for RunningScriptStep / From<&ScriptStep>.  A timestamp is whether
\* it is set and how often it has been written.
NewStep ==
    [status |-> "failed", started_at |-> FALSE, finished_at |-> FALSE,
     starts |-> 0, finishes |-> 0]

\* RunningScriptStep::start
StepStart(step) == [step EXCEPT !.started_at = TRUE, !.starts = @ + 1]

\* RunningScriptStep::finish
StepFinish(step, status) ==
    [step EXCEPT !.status = status, !.finished_at = TRUE, !.finishes = @ + 1]

\* JobResult::new: steps are named by their position, current_step_name is the
\* first step (0 stands for None).
NewJobResult(id, nsteps) ==
    [id |-> id,
     is_success |-> FALSE,
     steps |-> [i \in 1..nsteps |-> NewStep],
     current_step_name |-> IF nsteps > 0 THEN 1 ELSE 0,
     finished_at |-> FALSE,
     dry_run |-> FALSE,
     child_process_ids |-> <<>>]

\* The id of a dry-run result: the literal "dry_run", which is no counter value.
DryRunId == 0

\* JobResult::try_from((job, script, true))
NewDryJobResult(nsteps) == [NewJobResult(DryRunId, nsteps) EXCEPT !.dry_run = TRUE]

\* What <results_root>/<id>/result.yml holds: nothing, a result, or text that
\* does not parse.
NoFile == [file |-> "none", jr |-> NewJobResult(0, 0)]

ValidFile(jr) == [file |-> "ok", jr |-> jr]

CorruptFile == [file |-> "corrupt", jr |-> NewJobResult(0, 0)]

\* A result left by an earlier run of the server.
OldResult(id) ==
    ValidFile([NewJobResult(id, 0) EXCEPT !.is_success = TRUE, !.finished_at = TRUE])

\* JobResult::get: "none" (Ok(None)), "ok" (Ok(Some)), "corrupt" (Err).
Get(res, id) == res[id].file

\* JobResult::start_step on the in-memory result; ok = FALSE is Err("No current step").
StartStep(jr) ==
    IF jr.current_step_name = 0
    THEN [ok |-> FALSE, jr |-> jr]
    ELSE [ok |-> TRUE,
          jr |-> [jr EXCEPT !.steps[jr.current_step_name] = StepStart(@)]]

\* Variant that moves on to the next step without finishing the current one.
FinishStepWithoutFinish(jr, is_success) ==
    IF jr.current_step_name = 0
    THEN [ok |-> FALSE, jr |-> jr]
    ELSE LET index == jr.current_step_name
         IN  IF ~is_success
             THEN [ok |-> TRUE, jr |-> [jr EXCEPT !.is_success = FALSE, !.finished_at = TRUE]]
             ELSE IF index + 1 <= Len(jr.steps)
             THEN [ok |-> TRUE, jr |-> [jr EXCEPT !.current_step_name = index + 1]]
             ELSE [ok |-> TRUE, jr |-> [jr EXCEPT !.finished_at = TRUE]]

\* Variant that clears the pointer when the last step finishes.
FinishStepClearingPointer(jr, is_success) ==
    IF jr.current_step_name = 0
    THEN [ok |-> FALSE, jr |-> jr]
    ELSE LET index == jr.current_step_name
             j1 == [jr EXCEPT !.steps[index] = StepFinish(@, StatusOf(is_success))]
         IN  IF ~is_success
             THEN [ok |-> TRUE, jr |-> [j1 EXCEPT !.is_success = FALSE, !.finished_at = TRUE]]
             ELSE IF index + 1 <= Len(jr.steps)
             THEN [ok |-> TRUE, jr |-> [j1 EXCEPT !.current_step_name = index + 1]]
             ELSE [ok |-> TRUE, jr |-> [j1 EXCEPT !.finished_at = TRUE,
                                                  !.current_step_name = 0]]

\* Variant that leaves the pointer on a step that succeeded.
FinishStepStaying(jr, is_success) ==
    IF jr.current_step_name = 0
    THEN [ok |-> FALSE, jr |-> jr]
    ELSE LET index == jr.current_step_name
             j1 == [jr EXCEPT !.steps[index] = StepFinish(@, StatusOf(is_success))]
         IN  IF ~is_success
             THEN [ok |-> TRUE, jr |-> [j1 EXCEPT !.is_success = FALSE, !.finished_at = TRUE]]
             ELSE IF index + 1 <= Len(jr.steps)
             THEN [ok |-> TRUE, jr |-> j1]
             ELSE [ok |-> TRUE, jr |-> [j1 EXCEPT !.finished_at = TRUE]]

\* JobResult::finish_step on the in-memory result; every Ok path saves `jr`.
FinishStep(jr, is_success) ==
    IF jr.current_step_name = 0
    THEN [ok |-> FALSE, jr |-> jr]
    ELSE LET index == jr.current_step_name
             j1 == [jr EXCEPT !.steps[index] = StepFinish(@, StatusOf(is_success))]
         IN  IF ~is_success
             THEN [ok |-> TRUE, jr |-> [j1 EXCEPT !.is_success = FALSE, !.finished_at = TRUE]]
             ELSE IF index + 1 <= Len(jr.steps)
             THEN [ok |-> TRUE, jr |-> [j1 EXCEPT !.current_step_name = index + 1]]
             ELSE [ok |-> TRUE, jr |-> [j1 EXCEPT !.finished_at = TRUE]]

\* ------------------------------------------------------ next_job_result_id

\* Variant of the loop that does not look at the disk.
FirstFreeIgnoringDisk(res, k) == k

\* The while loop: the first candidate from `k` upwards with no result on disk;
\* 0 when JobResult::get fails on a candidate (the `?` returns the error).
RECURSIVE FirstFree(_, _)
FirstFree(res, k) ==
    IF k \notin Ids THEN k
    ELSE IF Get(res, k) = "corrupt" THEN 0
    ELSE IF Get(res, k) = "ok" THEN FirstFree(res, k + 1)
    ELSE k

\* Variant that hands out the counter value itself.
NextCandidateStale(content) == ParseOrZero(content)

\* let mut next_id = id + 1
NextCandidate(content) == ParseOrZero(content) + 1

\* next_job_result_id: the id returned (0 for Err) and the counter file after it.
NextJobResultId(content, res) ==
    LET next_id == FirstFree(res, NextCandidate(content))
    IN  IF next_id = 0
        THEN [id |-> 0, file |-> content]
        ELSE [id |-> next_id, file |-> ToString(next_id)]

\* ------------------------------------------------------- process table

\* get_process_recursive: breadth-first levels below `root` in the table
\* (live processes and their parent pointers); the root itself is not pushed.
RECURSIVE DescendantLevels(_, _, _)
DescendantLevels(live, par, last_list) ==
    IF last_list = {} THEN {}
    ELSE LET new_list == {c \in live : par[c] \in last_list}
         IN  new_list \cup DescendantLevels(live \ new_list, par, new_list)

GetProcessRecursive(live, par, root) == DescendantLevels(live, par, {root})

\* The elements of a sequence.
Range(f) == {f[i] : i \in DOMAIN f}

\* ------------------------------------------------------------------- state

VARIABLES
    idsFile,    \* text of <state_root>/ids.txt
    results,    \* id -> content of <results_root>/<id>/result.yml
    dirs,       \* ids whose result directory exists
    logFiles,   \* result ids whose log file exists
    handles,    \* JobExecutor.handles: result id -> task (abort handle)
    sub,        \* slot -> position of that call of execute_with_script and what it returned
    task,       \* slot -> the engine task: position, abort flag, in-memory JobResult
    obs,        \* slot -> the completion observer task
    alive,      \* pids in the process table
    parent,     \* pid -> parent pid
    owner,      \* pid -> slot whose run the process descends from
    created,    \* number of processes created so far
    signalled,  \* pids the cancellation cleanup has killed
    returned,   \* successful calls of next_job_result_id in call order: the counter
                \* value read and the id returned
    lastStop,   \* the most recent stop_job call and its result
    stopOk,     \* id -> number of stop_job calls that returned Ok
    pin,        \* inputs of the parameter functions
    pout,       \* their results
    logs,       \* the log file of one result and the add_log calls in progress
    pump        \* one child process, its pipes and pumps, and the engine waiting for it

vars == <<idsFile, results, dirs, logFiles, handles, sub, task, obs, alive, parent,
          owner, created, signalled, returned, lastStop, stopOk, pin, pout, logs, pump>>

diskVars == <<idsFile, results, dirs, logFiles>>

procVars == <<alive, parent, owner, created, signalled>>

stopVars == <<lastStop, stopOk>>

paramVars == <<pin, pout>>

logVars == <<logs, pump>>

\* Jobs and scripts (their parameter lists) handed to execute_with_script.
SubmitInputs ==
    { [job |-> <<>>, script |-> <<>>],
      [job |-> <<[name |-> "p", default |-> "j"]>>,
       script |-> <<[name |-> "p", required |-> TRUE, default |-> NoneV]>>],
      [job |-> <<>>,
       script |-> <<[name |-> "p", required |-> TRUE, default |-> NoneV],
                    [name |-> "q", required |-> TRUE, default |-> NoneV]>>] }

NoInput == [job |-> <<>>, script |-> <<>>, provided |-> EmptyMap]

NoOutput == [validated |-> FALSE, merged |-> FALSE,
             result |-> [ok |-> TRUE, err |-> <<>>], map |-> EmptyMap]

IdleSub == [pc |-> "idle", id |-> 0, err |-> <<>>]

\* ret is what execute_job_result_internal returned once pc is "done" (<<>> for
\* Ok(())); errlog holds the error messages the engine has logged.
IdleTask ==
    [pc |-> "none", abort |-> FALSE, is_success |-> TRUE, jr |-> NewJobResult(0, 0),
     ret |-> <<>>, errlog |-> <<>>]

\* The callers of add_log on one live result.
Writers == {"engine", "stdout", "stderr", "observer"}

\* An empty log file (JobLogger::new), nobody inside add_log, the engine task
\* not cancelled.
NoLogs ==
    [file |-> <<>>,
     pc |-> [w \in Writers |-> "idle"],
     calls |-> [w \in Writers |-> 0],
     cancelled |-> FALSE]

\* order is the sequence of pids the kill loop has signalled.
IdleObs == [pc |-> "none", jr |-> NewJobResult(0, 0), snap |-> {}, order |-> <<>>]

NoStop == [id |-> 0, ok |-> FALSE, err |-> <<>>]

\* Counter files the server can find at start: absent or empty, not a number,
\* a number with a line break after it, a number.
InitialIdsFiles ==
    {<<>>, <<"x">>, ToString(1) \o <<"\n">>} \cup {ToString(n) : n \in {MaxPre}}

\* Result files the server can find at start: results of earlier runs under
\* ids 1..MaxPre+1, the highest of them possibly cut short by a crash.
InitialResults ==
    { r \in [Ids -> {NoFile, CorruptFile} \cup {OldResult(i) : i \in Ids}] :
        /\ \A i \in Ids : r[i].file = "ok" => r[i].jr.id = i
        /\ \A i \in Ids : i > MaxPre + 1 => r[i] = NoFile
        /\ \A i \in Ids : r[i] = CorruptFile => i = MaxPre + 1 }

\* The pipes of a child process.
Streams == {"stdout", "stderr"}

\* No child process is being followed.
IdlePump ==
    [child |-> "none", status |-> 0,
     written |-> [st \in Streams |-> 0],
     pipe |-> [st \in Streams |-> <<>>],
     log |-> <<>>,
     t |-> IdleTask,
     saved |-> NewJobResult(0, 0)]

InitRest ==
    /\ logFiles = {}
    /\ handles = [k \in {} |-> 1]
    /\ sub = [s \in Slots |-> IdleSub]
    /\ task = [s \in Slots |-> IdleTask]
    /\ obs = [s \in Slots |-> IdleObs]
    /\ alive = {}
    /\ parent = [p \in Pids |-> ServerPid]
    /\ owner = [p \in Pids |-> 0]
    /\ created = 0
    /\ signalled = {}
    /\ returned = <<>>
    /\ lastStop = NoStop
    /\ stopOk = [i \in Ids |-> 0]
    /\ logs = NoLogs
    /\ pump = IdlePump

\* The server starts on any disk state an earlier run, a crash or an operator
\* can have left.
InitIds ==
    /\ idsFile \in InitialIdsFiles
    /\ results \in InitialResults
    /\ dirs = {i \in Ids : results[i].file # "none"}
    /\ InitRest
    /\ pin = NoInput
    /\ pout = NoOutput

\* The server starts on a fresh state root, or on one whose counter file was
\* lost while the result of an earlier run is still there.
Init ==
    /\ idsFile \in {<<>>, ToString(1) \o <<"\n">>}
    /\ results \in {[i \in Ids |-> NoFile]}
                    \cup {[i \in Ids |-> IF i = k THEN OldResult(k) ELSE NoFile] : k \in 1..MaxPre}
    /\ dirs = {i \in Ids : results[i].file # "none"}
    /\ InitRest
    /\ pin = NoInput
    /\ pout = NoOutput

\* Variant that writes the result without its child pids.
SaveWithoutPids(res, jr) ==
    IF jr.dry_run THEN res
    ELSE [res EXCEPT ![jr.id] = ValidFile([jr EXCEPT !.child_process_ids = <<>>])]

\* JobResult::save: nothing in a dry run, else result.yml is written.
Save(res, jr) == IF jr.dry_run THEN res ELSE [res EXCEPT ![jr.id] = ValidFile(jr)]

\* ------------------------------------------- JobExecutor::execute_with_script

\* Variant of the first part of execute_with_script that builds the JobResult
\* before it validates the parameters.
SubmitAllocateThenValidate(s, StepCounts) ==
    /\ sub[s].pc = "idle"
    /\ \E input \in SubmitInputs, nsteps \in StepCounts :
         LET v == ValidateParameters(input.job, input.script)
             r == NextJobResultId(idsFile, results)
         IN  IF r.id = 0
             THEN /\ sub' = [sub EXCEPT ![s] = [pc |-> "failed", id |-> 0, err |-> <<"get">>]]
                  /\ UNCHANGED <<diskVars, task, returned>>
             ELSE /\ idsFile' = r.file
                  /\ logFiles' = logFiles \cup {r.id}
                  /\ returned' = Append(returned, [n |-> ParseOrZero(idsFile), id |-> ToString(r.id)])
                  /\ sub' = [sub EXCEPT ![s] =
                                IF v.ok THEN [pc |-> "allocated", id |-> r.id, err |-> <<>>]
                                ELSE [pc |-> "failed", id |-> 0, err |-> v.err]]
                  /\ task' = [task EXCEPT ![s].jr = NewJobResult(r.id, nsteps)]
                  /\ UNCHANGED <<results, dirs>>
    /\ UNCHANGED <<handles, obs, procVars, stopVars, paramVars, logVars>>

\* validate_parameters, merged_parameters, JobResult::try_from (next_job_result_id
\* and JobLogger::new) for a script with one of the given numbers of steps.
SubmitAllocate(s, StepCounts) ==
    /\ sub[s].pc = "idle"
    /\ \E input \in SubmitInputs, nsteps \in StepCounts :
         LET v == ValidateParameters(input.job, input.script)
             r == NextJobResultId(idsFile, results)
         IN  IF ~v.ok
             THEN /\ sub' = [sub EXCEPT ![s] = [pc |-> "failed", id |-> 0, err |-> v.err]]
                  /\ UNCHANGED <<diskVars, task, returned>>
             ELSE IF r.id = 0
             THEN /\ sub' = [sub EXCEPT ![s] = [pc |-> "failed", id |-> 0, err |-> <<"get">>]]
                  /\ UNCHANGED <<diskVars, task, returned>>
             ELSE /\ idsFile' = r.file
                  /\ logFiles' = logFiles \cup {r.id}
                  /\ returned' = Append(returned, [n |-> ParseOrZero(idsFile), id |-> ToString(r.id)])
                  /\ sub' = [sub EXCEPT ![s] = [pc |-> "allocated", id |-> r.id, err |-> <<>>]]
                  /\ task' = [task EXCEPT ![s].jr = NewJobResult(r.id, nsteps)]
                  /\ UNCHANGED <<results, dirs>>
    /\ UNCHANGED <<handles, obs, procVars, stopVars, paramVars, logVars>>

\* create_dir_all(directory); job_result.save()
SubmitSave(s) ==
    /\ sub[s].pc = "allocated"
    /\ dirs' = dirs \cup {sub[s].id}
    /\ results' = Save(results, task[s].jr)
    /\ sub' = [sub EXCEPT ![s].pc = "saved"]
    /\ UNCHANGED <<idsFile, logFiles, handles, task, obs, procVars, returned, stopVars, paramVars, logVars>>

\* task::spawn of the engine task and of the completion observer
SubmitSpawn(s) ==
    /\ sub[s].pc = "saved"
    /\ task' = [task EXCEPT ![s].pc = "ready"]
    /\ obs' = [obs EXCEPT ![s].pc = "waiting"]
    /\ sub' = [sub EXCEPT ![s].pc = "spawned"]
    /\ UNCHANGED <<diskVars, handles, procVars, returned, stopVars, paramVars, logVars>>

\* self.handles.lock().await.insert(id, abort_handle); Ok(cloned_id)
SubmitRegister(s) ==
    /\ sub[s].pc = "spawned"
    /\ handles' = MapInsert(handles, sub[s].id, s)
    /\ sub' = [sub EXCEPT ![s].pc = "returned"]
    /\ UNCHANGED <<diskVars, task, obs, procVars, returned, stopVars, paramVars, logVars>>

\* -------------------------------------------------- JobExecutor::validate

\* merged_parameters, JobResult::try_from((job, script, true)), then the engine
\* loop is awaited in place: no task is spawned and no handle registered.  The
\* three-argument JobLogger::new that try_from calls is not the two-argument one
\* of log.rs, which creates the log file: either may happen.
DryRunStart(s) ==
    /\ sub[s].pc = "idle"
    /\ \E nsteps \in 0..MaxSteps :
         task' = [task EXCEPT ![s] = [IdleTask EXCEPT !.pc = "loop",
                                                     !.jr = NewDryJobResult(nsteps)]]
    /\ logFiles' \in {logFiles, logFiles \cup {DryRunId}}
    /\ sub' = [sub EXCEPT ![s].pc = "dry"]
    /\ UNCHANGED <<idsFile, results, dirs, handles, obs, procVars, returned, stopVars, paramVars, logVars>>

\* validate returns what execute_job_result_internal returned.
DryRunReturn(s) ==
    /\ sub[s].pc = "dry"
    /\ task[s].pc = "done"
    /\ sub' = [sub EXCEPT ![s] = [pc |-> "validated", id |-> 0, err |-> task[s].ret]]
    /\ UNCHANGED <<diskVars, handles, task, obs, procVars, returned, stopVars, paramVars, logVars>>

\* ------------------------------------- JobExecutor::execute_job_result_internal

\* Top of the while loop: job_result.start_step()?
EngineStartStep(s) ==
    /\ \/ task[s].pc = "ready" /\ ~task[s].abort
       \/ task[s].pc = "loop"
    /\ LET r == StartStep(task[s].jr)
       IN  IF r.ok
           THEN /\ task' = [task EXCEPT ![s].pc = "exec", ![s].jr = r.jr]
                /\ results' = Save(results, r.jr)
           ELSE /\ task' = [task EXCEPT ![s].pc = "done", ![s].ret = <<"No current step">>]
                /\ UNCHANGED results
    /\ UNCHANGED <<idsFile, dirs, logFiles, handles, sub, obs, procVars, returned, stopVars, paramVars, logVars>>

\* Errors an operation can return before it runs a command.
OpErrors == {"Parameter 'missing.param' not found", "Image name parameter cannot be an array"}

\* execute_script on a non-zero exit status: the status is formatted with
\* ExitStatus's Display, which writes "exit status: <code>".
ExitStatusError == "Process exited with status: exit status: 1"

\* execute_script when child.wait() fails: the text of the io::Error.
WaitError == "No child processes (os error 10)"

\* format!("Error in step {}: {}", step_name, e)
ErrorInStep(step_name, e) == <<"Error in step ", step_name, ": ", e>>

\* Variant that handles the error in a dry run as in a live run.
AfterStepErrorSwallowed(t, e) ==
    [t EXCEPT !.jr = FinishStep(t.jr, FALSE).jr, !.is_success = FALSE,
              !.errlog = IF t.jr.dry_run THEN @
                         ELSE Append(@, ErrorInStep(t.jr.current_step_name, e)),
              !.pc = "final"]

\* After an error of the step: add_log (nothing in a dry run), finish_step(false),
\* is_success = false; a dry run returns the message, a live run breaks.
AfterStepError(t, e) ==
    LET message == ErrorInStep(t.jr.current_step_name, e)
        jr == FinishStep(t.jr, FALSE).jr
    IN  IF t.jr.dry_run
        THEN [t EXCEPT !.jr = jr, !.is_success = FALSE, !.ret = message, !.pc = "done"]
        ELSE [t EXCEPT !.jr = jr, !.is_success = FALSE,
                       !.errlog = Append(@, message), !.pc = "final"]

\* After the last operation of the step: finish_step(true), back to the loop test.
AfterStepOk(t) ==
    LET jr == FinishStep(t.jr, TRUE).jr
    IN  [t EXCEPT !.jr = jr, !.pc = IF jr.finished_at THEN "final" ELSE "loop"]

\* The next operation of the current step: one that spawns a process
\* (execute_command up to the first yield of execute_script; a dry run skips the
\* command), one that fails before it spawns anything, or none left; or the
\* yield_now git-clone makes before its command.
EngineExec(s) ==
    /\ task[s].pc = "exec"
    /\ \/ /\ ~task[s].jr.dry_run
          /\ created < MaxPids
          /\ LET pid == created + 1
                 jr == [task[s].jr EXCEPT !.child_process_ids = Append(@, pid)]
             IN  /\ created' = pid
                 /\ alive' = alive \cup {pid}
                 /\ parent' = [parent EXCEPT ![pid] = ServerPid]
                 /\ owner' = [owner EXCEPT ![pid] = s]
                 /\ task' = [task EXCEPT ![s].jr = jr, ![s].pc = "wait"]
                 /\ results' = Save(results, jr)
                 /\ UNCHANGED signalled
       \/ /\ \E e \in OpErrors : task' = [task EXCEPT ![s] = AfterStepError(@, e)]
          /\ results' = Save(results, task'[s].jr)
          /\ UNCHANGED procVars
       \/ /\ task' = [task EXCEPT ![s] = AfterStepOk(@)]
          /\ results' = Save(results, task'[s].jr)
          /\ UNCHANGED procVars
       \/ /\ task' = [task EXCEPT ![s].pc = "yield"]
          /\ UNCHANGED <<results, procVars>>
    /\ UNCHANGED <<idsFile, dirs, logFiles, handles, sub, obs, returned, stopVars, paramVars, logVars>>

\* The task is polled again after a yield_now of git-clone.
EngineResume(s) ==
    /\ task[s].pc = "yield"
    /\ ~task[s].abort
    /\ task' = [task EXCEPT ![s].pc = "exec"]
    /\ UNCHANGED <<diskVars, handles, sub, obs, procVars, returned, stopVars, paramVars, logVars>>

\* execute_script after its wait loop saw the child gone: child.wait(), pop the
\* pid, then the exit status decides; after a successful command the operation
\* goes on, or yields as git-clone does after its clone.  When child.wait()
\* fails the `?` returns its error before the pop.
EngineReap(s) ==
    /\ task[s].pc = "wait"
    /\ ~task[s].abort
    /\ LET ids == task[s].jr.child_process_ids
           popped == [task[s] EXCEPT !.jr.child_process_ids = SubSeq(ids, 1, Len(ids) - 1)]
       IN  /\ ids[Len(ids)] \notin alive
           /\ \/ /\ task' = [task EXCEPT ![s] = AfterStepError(popped, ExitStatusError)]
                 /\ results' = Save(results, task'[s].jr)
              \/ /\ task' = [task EXCEPT ![s] = AfterStepOk(popped)]
                 /\ results' = Save(results, task'[s].jr)
              \/ /\ \E pc \in {"exec", "yield"} : task' = [task EXCEPT ![s] = [popped EXCEPT !.pc = pc]]
                 /\ UNCHANGED results
              \/ /\ task' = [task EXCEPT ![s] = AfterStepError(@, WaitError)]
                 /\ results' = Save(results, task'[s].jr)
    /\ UNCHANGED <<idsFile, dirs, logFiles, handles, sub, obs, procVars, returned, stopVars, paramVars, logVars>>

\* After the loop: job_result.is_success = is_success; job_result.save()?; Ok(())
EngineFinal(s) ==
    /\ task[s].pc = "final"
    /\ LET jr == [task[s].jr EXCEPT !.is_success = task[s].is_success]
       IN  /\ task' = [task EXCEPT ![s].jr = jr, ![s].pc = "done"]
           /\ results' = Save(results, jr)
    /\ UNCHANGED <<idsFile, dirs, logFiles, handles, sub, obs, procVars, returned, stopVars, paramVars, logVars>>

\* Variant that drops an aborted task wherever it is, also after it returned.
TaskCancelAnywhere(s) ==
    /\ task[s].abort
    /\ task[s].pc \notin {"none", "cancelled"}
    /\ task' = [task EXCEPT ![s].pc = "cancelled"]
    /\ UNCHANGED <<diskVars, handles, sub, obs, procVars, returned, stopVars, paramVars, logVars>>

\* The runtime drops an aborted task where it is suspended: before its first
\* poll, at the yield of execute_script's wait loop, or at a yield of git-clone.
TaskCancel(s) ==
    /\ task[s].abort
    /\ task[s].pc \in {"ready", "wait", "yield"}
    /\ task' = [task EXCEPT ![s].pc = "cancelled"]
    /\ UNCHANGED <<diskVars, handles, sub, obs, procVars, returned, stopVars, paramVars, logVars>>

\* ------------------------------------------------------ completion observer

\* handle.await returned Ok(_): nothing to do.
ObsJoinOk(s) ==
    /\ obs[s].pc = "waiting"
    /\ task[s].pc = "done"
    /\ obs' = [obs EXCEPT ![s].pc = "done"]
    /\ UNCHANGED <<diskVars, handles, sub, task, procVars, returned, stopVars, paramVars, logVars>>

\* Variant that acts on the abort request without awaiting the task.
ObsLoadWithoutJoin(s) ==
    /\ obs[s].pc = "waiting"
    /\ task[s].abort
    /\ IF Get(results, sub[s].id) = "ok"
       THEN obs' = [obs EXCEPT ![s] = [pc |-> "loaded", jr |-> results[sub[s].id].jr,
                                       snap |-> alive, order |-> <<>>]]
       ELSE obs' = [obs EXCEPT ![s].pc = "done"]
    /\ UNCHANGED <<diskVars, handles, sub, task, procVars, returned, stopVars, paramVars, logVars>>

\* handle.await returned a cancelled JoinError: JobResult::get, add_log,
\* System::new_all().
ObsLoad(s) ==
    /\ obs[s].pc = "waiting"
    /\ task[s].pc = "cancelled"
    /\ IF Get(results, sub[s].id) = "ok"
       THEN obs' = [obs EXCEPT ![s] = [pc |-> "loaded", jr |-> results[sub[s].id].jr,
                                       snap |-> alive, order |-> <<>>]]
       ELSE obs' = [obs EXCEPT ![s].pc = "done"]
    /\ UNCHANGED <<diskVars, handles, sub, task, procVars, returned, stopVars, paramVars, logVars>>

\* The pids the kill loop signals: for every recorded pid, what
\* get_process_recursive returns now, as far as the snapshot `s` knows the pid.
KillSet(jr, snap, live, par) ==
    UNION {GetProcessRecursive(live, par, child) \cap snap : child \in Range(jr.child_process_ids)}

\* The number of parent links from p up to root, for p below root.
RECURSIVE LevelBelow(_, _, _)
LevelBelow(par, root, p) == IF par[p] = root THEN 1 ELSE 1 + LevelBelow(par, root, par[p])

\* The orders in which get_process_recursive can return the processes below
\* root: level by level, the order within a level being that of the iteration
\* over the process map.
DiscoveryOrders(live, par, root) ==
    LET D == GetProcessRecursive(live, par, root)
    IN  {d \in [1..Cardinality(D) -> D] :
            /\ \A i, j \in DOMAIN d : i # j => d[i] # d[j]
            /\ \A i, j \in DOMAIN d :
                   i < j => LevelBelow(par, root, d[i]) <= LevelBelow(par, root, d[j])}

\* processes.reverse()
Reverse(q) == [i \in 1..Len(q) |-> q[Len(q) + 1 - i]]

\* The elements of q that are in S, in the order of q.
RECURSIVE Restrict(_, _)
Restrict(q, S) ==
    IF q = <<>> THEN <<>>
    ELSE IF Head(q) \in S THEN <<Head(q)>> \o Restrict(Tail(q), S)
    ELSE Restrict(Tail(q), S)

\* The sequences of pids the kill loop can signal for the recorded pids `ids`:
\* for each recorded pid in turn the reversed discovery order, a pid the
\* snapshot does not know being skipped.
RECURSIVE KillOrders(_, _, _, _)
KillOrders(ids, snap, live, par) ==
    IF ids = <<>> THEN {<<>>}
    ELSE {Restrict(Reverse(d), snap) \o rest :
             d \in DiscoveryOrders(live, par, Head(ids)),
             rest \in KillOrders(Tail(ids), snap, live, par)}

\* The kill loop.
ObsKill(s) ==
    /\ obs[s].pc = "loaded"
    /\ LET K == KillSet(obs[s].jr, obs[s].snap, alive, parent)
       IN  /\ signalled' = signalled \cup K
           /\ alive' = alive \ K
           /\ parent' = [p \in Pids |-> IF parent[p] \in K THEN InitPid ELSE parent[p]]
    /\ \E order \in KillOrders(obs[s].jr.child_process_ids, obs[s].snap, alive, parent) :
           obs' = [obs EXCEPT ![s].pc = "killed", ![s].order = order]
    /\ UNCHANGED <<diskVars, handles, sub, task, owner, created, returned, stopVars, paramVars, logVars>>

\* job_result.finish_step(false); an error is printed and ignored.
ObsFinishStep(s) ==
    /\ obs[s].pc = "killed"
    /\ LET r == FinishStep(obs[s].jr, FALSE)
       IN  /\ obs' = [obs EXCEPT ![s].jr = r.jr, ![s].pc = "finishing"]
           /\ results' = IF r.ok THEN Save(results, r.jr) ELSE results
    /\ UNCHANGED <<idsFile, dirs, logFiles, handles, sub, task, procVars, returned, stopVars, paramVars, logVars>>

\* child_process_ids.clear(); is_success = false; save()
ObsFinal(s) ==
    /\ obs[s].pc = "finishing"
    /\ LET jr == [obs[s].jr EXCEPT !.child_process_ids = <<>>, !.is_success = FALSE]
       IN  /\ obs' = [obs EXCEPT ![s].jr = jr, ![s].pc = "done"]
           /\ results' = Save(results, jr)
    /\ UNCHANGED <<idsFile, dirs, logFiles, handles, sub, task, procVars, returned, stopVars, paramVars, logVars>>

\* ------------------------------------------------------------ OS processes

\* A process of a run forks a child.
ProcFork(p) ==
    /\ p \in alive
    /\ created < MaxPids
    /\ created' = created + 1
    /\ alive' = alive \cup {created + 1}
    /\ parent' = [parent EXCEPT ![created + 1] = p]
    /\ owner' = [owner EXCEPT ![created + 1] = owner[p]]
    /\ UNCHANGED <<diskVars, handles, sub, task, obs, signalled, returned, stopVars, paramVars, logVars>>

\* A process exits; its children are re-parented.
ProcExit(p) ==
    /\ p \in alive
    /\ alive' = alive \ {p}
    /\ parent' = [c \in Pids |-> IF parent[c] = p THEN InitPid ELSE parent[c]]
    /\ UNCHANGED <<diskVars, handles, sub, task, obs, owner, created, signalled, returned,
                   stopVars, paramVars, logVars>>

\* ------------------------------------------------------ JobExecutor::stop_job

\* The ids callers pass: ids that execute_with_script has handed out.
KnownIds == {sub[s].id : s \in Slots} \ {0}

NotFound(id) == <<"Job ", ToString(id), " not found">>

\* handles.remove(id)
MapRemove(m, k) == [x \in (DOMAIN m) \ {k} |-> m[x]]

\* Variant of stop_job that leaves the entry in the map.
StopJobKeepingEntry(id) ==
    /\ id \in KnownIds
    /\ stopOk[id] < MaxStopOk
    /\ IF id \in DOMAIN handles
       THEN /\ task' = [task EXCEPT ![handles[id]].abort = TRUE]
            /\ handles' = handles
            /\ lastStop' = [id |-> id, ok |-> TRUE, err |-> <<>>]
            /\ stopOk' = [stopOk EXCEPT ![id] = @ + 1]
       ELSE /\ lastStop' = [id |-> id, ok |-> FALSE, err |-> NotFound(id)]
            /\ UNCHANGED <<task, handles, stopOk>>
    /\ UNCHANGED <<diskVars, sub, obs, procVars, returned, paramVars, logVars>>

StopJob(id) ==
    /\ id \in KnownIds
    /\ stopOk[id] < MaxStopOk
    /\ IF id \in DOMAIN handles
       THEN /\ task' = [task EXCEPT ![handles[id]].abort = TRUE]
            /\ handles' = MapRemove(handles, id)
            /\ lastStop' = [id |-> id, ok |-> TRUE, err |-> <<>>]
            /\ stopOk' = [stopOk EXCEPT ![id] = @ + 1]
       ELSE /\ lastStop' = [id |-> id, ok |-> FALSE, err |-> NotFound(id)]
            /\ UNCHANGED <<task, handles, stopOk>>
    /\ UNCHANGED <<diskVars, sub, obs, procVars, returned, paramVars, logVars>>

\* ------------------------------------------------------------ specification

Next ==
    \/ \E s \in RunSlots : SubmitAllocate(s, 0..MaxSteps)
    \/ \E s \in RunSlots : SubmitSave(s)
    \/ \E s \in RunSlots : SubmitSpawn(s)
    \/ \E s \in RunSlots : SubmitRegister(s)
    \/ \E s \in RunSlots : DryRunStart(s)
    \/ \E s \in RunSlots : DryRunReturn(s)
    \/ \E s \in RunSlots : EngineStartStep(s)
    \/ \E s \in RunSlots : EngineExec(s)
    \/ \E s \in RunSlots : EngineReap(s)
    \/ \E s \in RunSlots : EngineResume(s)
    \/ \E s \in RunSlots : EngineFinal(s)
    \/ \E s \in RunSlots : TaskCancel(s)
    \/ \E s \in RunSlots : ObsJoinOk(s)
    \/ \E s \in RunSlots : ObsLoad(s)
    \/ \E s \in RunSlots : ObsKill(s)
    \/ \E s \in RunSlots : ObsFinishStep(s)
    \/ \E s \in RunSlots : ObsFinal(s)
    \/ \E p \in Pids : ProcFork(p)
    \/ \E p \in Pids : ProcExit(p)
    \/ \E id \in Ids : StopJob(id)

Spec == Init /\ [][Next]_vars

\* The runtime polls a task that is ready, a spawned process exits, and an
\* operation does not yield for ever: from a step that is executing, the step
\* ends or waits for a command again and again until it has ended.
Fairness ==
    /\ \A s \in RunSlots :
          /\ WF_vars(SubmitSave(s))
          /\ WF_vars(SubmitSpawn(s))
          /\ WF_vars(EngineStartStep(s))
          /\ SF_vars(EngineExec(s) /\ task'[s].pc # "yield")
          /\ SF_vars(EngineReap(s) /\ task'[s].pc # "yield")
          /\ WF_vars(EngineResume(s))
          /\ WF_vars(EngineFinal(s))
    /\ \A p \in Pids : WF_vars(ProcExit(p))

SpecLive == Spec /\ Fairness

\* Concurrent submissions of scripts without steps, from every initial disk
\* state: each engine task returns at once (start_step fails) and its observer
\* sees it return.  Cancellation is the subject of Spec.
NextIds ==
    \/ \E s \in Slots : SubmitAllocate(s, {0})
    \/ \E s \in Slots : SubmitSave(s)
    \/ \E s \in Slots : SubmitSpawn(s)
    \/ \E s \in Slots : SubmitRegister(s)
    \/ \E s \in Slots : EngineStartStep(s)
    \/ \E s \in Slots : ObsJoinOk(s)

SpecIds == InitIds /\ [][NextIds]_vars

\* ------------------------------------------ the parameter functions on their own

ParamInputs ==
    [job : SeqUpTo(JobParameterDefinition, MaxParams),
     script : SeqUpTo(ScriptParameter, MaxParams),
     provided : ProvidedMaps]

InitParams ==
    /\ idsFile = <<>>
    /\ results = [i \in Ids |-> NoFile]
    /\ dirs = {}
    /\ InitRest
    /\ pin \in ParamInputs
    /\ pout = NoOutput

\* job.validate_parameters(Some(script))
ApplyValidate ==
    /\ ~pout.validated
    /\ pout' = [pout EXCEPT !.validated = TRUE,
                            !.result = ValidateParameters(pin.job, pin.script)]
    /\ UNCHANGED <<diskVars, handles, sub, task, obs, procVars, returned, stopVars, pin, logVars>>

\* job.merged_parameters(Some(script), parameters)
ApplyMerge ==
    /\ ~pout.merged
    /\ pout' = [pout EXCEPT !.merged = TRUE,
                            !.map = MergedParameters(pin.job, pin.script, pin.provided)]
    /\ UNCHANGED <<diskVars, handles, sub, task, obs, procVars, returned, stopVars, pin, logVars>>

NextParams == ApplyValidate \/ ApplyMerge

SpecParams == InitParams /\ [][NextParams]_vars

\* ------------------------------------------ substitute_parameters on its own

SubstInputs ==
    [template : Templates(MaxPieces), parameters : SubstMaps, optional : BOOLEAN]

NoSubstOutput == [done |-> FALSE, result |-> SubstNone]

InitSubst ==
    /\ idsFile = <<>>
    /\ results = [i \in Ids |-> NoFile]
    /\ dirs = {}
    /\ InitRest
    /\ pin \in SubstInputs
    /\ pout = NoSubstOutput

\* template.substitute_parameters(parameters, optional)
ApplySubstitute ==
    /\ ~pout.done
    /\ pout' = [done |-> TRUE,
                result |-> SubstituteParameters(pin.template, pin.parameters, pin.optional)]
    /\ UNCHANGED <<diskVars, handles, sub, task, obs, procVars, returned, stopVars, pin, logVars>>

NextSubst == ApplySubstitute

SpecSubst == InitSubst /\ [][NextSubst]_vars

\* ------------------------------------------------------------------ job log

\* add_log calls each writer makes.
MaxLogCalls == 2

\* The JobLogger mutex a writer locks: the pumps hold clones of the engine's
\* JobResult, which share its Arc; the observer's JobResult is deserialised by
\* JobResult::get and owns a mutex of its own.
LoggerOf(w) == IF w = "observer" THEN "loaded" ELSE "shared"

\* What a write appends to the file: the JSON text of the n-th record of writer
\* w, or a line break.
RecordText(w, n) == [w |-> w, n |-> n]

LineBreak == [w |-> "", n |-> 0]

\* abort() takes effect at an await point of the engine task, never inside
\* add_log; the observer runs once the task is gone.
LogCancel ==
    /\ ~logs.cancelled
    /\ logs.pc["engine"] = "idle"
    /\ logs' = [logs EXCEPT !.cancelled = TRUE]
    /\ UNCHANGED <<diskVars, handles, sub, task, obs, procVars, returned, stopVars, paramVars, pump>>

\* add_log up to self.logger.lock(): the engine logs until it is cancelled, the
\* observer after that, the pumps as long as the pipes deliver lines.
LogLock(w) ==
    /\ logs.pc[w] = "idle"
    /\ logs.calls[w] < MaxLogCalls
    /\ w = "engine" => ~logs.cancelled
    /\ w = "observer" => logs.cancelled
    /\ \A o \in Writers \ {w} : LoggerOf(o) = LoggerOf(w) => logs.pc[o] = "idle"
    /\ logs' = [logs EXCEPT !.pc[w] = "locked", !.calls[w] = @ + 1]
    /\ UNCHANGED <<diskVars, handles, sub, task, obs, procVars, returned, stopVars, paramVars, pump>>

\* JobLogger::log, writeln! on the file opened for append: the file is not
\* buffered, so the text of the record is one write ...
LogWriteRecord(w) ==
    /\ logs.pc[w] = "locked"
    /\ logs' = [logs EXCEPT !.file = Append(@, RecordText(w, logs.calls[w])),
                            !.pc[w] = "written"]
    /\ UNCHANGED <<diskVars, handles, sub, task, obs, procVars, returned, stopVars, paramVars, pump>>

\* ... and the line break after it another; add_log returns and the guard drops.
LogWriteLineBreak(w) ==
    /\ logs.pc[w] = "written"
    /\ logs' = [logs EXCEPT !.file = Append(@, LineBreak), !.pc[w] = "idle"]
    /\ UNCHANGED <<diskVars, handles, sub, task, obs, procVars, returned, stopVars, paramVars, pump>>

\* str::lines: the pieces between line breaks; a final piece without a line
\* break counts when it is not empty.
RECURSIVE LinesFrom(_, _)
LinesFrom(file, line) ==
    IF file = <<>> THEN (IF line = <<>> THEN <<>> ELSE <<line>>)
    ELSE IF Head(file) = LineBreak THEN <<line>> \o LinesFrom(Tail(file), <<>>)
    ELSE LinesFrom(Tail(file), Append(line, Head(file)))

Lines(file) == LinesFrom(file, <<>>)

\* serde_json::from_str::<Log>(line).ok(): a line parses if it is the text of
\* exactly one record.
ParsesAsLog(line) == Len(line) = 1

\* JobLogger::get_logs
RECURSIVE CollectLogs(_)
CollectLogs(lines) ==
    IF lines = <<>> THEN <<>>
    ELSE IF ParsesAsLog(Head(lines)) THEN <<Head(lines)[1]>> \o CollectLogs(Tail(lines))
    ELSE CollectLogs(Tail(lines))

GetLogs(file) == CollectLogs(Lines(file))

InitLog ==
    /\ idsFile = <<>>
    /\ results = [i \in Ids |-> NoFile]
    /\ dirs = {}
    /\ InitRest
    /\ pin = NoInput
    /\ pout = NoOutput

NextLog ==
    \/ LogCancel
    \/ \E w \in Writers : LogLock(w)
    \/ \E w \in Writers : LogWriteRecord(w)
    \/ \E w \in Writers : LogWriteLineBreak(w)

SpecLog == InitLog /\ [][NextLog]_vars

\* -------------------------------------------------------------- webhook

\* Jobs Job::get_all returns.
MaxJobs == 2

\* A header of the request: absent, a value that is visible ASCII, or a value
\* HeaderValue::to_str refuses.
NoHeader == [kind |-> "absent", v |-> <<>>]

TextHeader(v) == [kind |-> "text", v |-> v]

OpaqueHeader == [kind |-> "opaque", v |-> <<>>]

\* HMAC-SHA256 of the body under the secret, in hex: a text that differs
\* whenever the body or the secret differs.
HmacHex(body, secret) == <<"hmac", secret, body>>

\* format!("sha256={}", hex::encode(...))
SignatureText(body, secret) == <<"sha256=">> \o HmacHex(body, secret)

\* Variant that accepts every signature.
IsSignatureValidAlways(body, signature, secret) == TRUE

\* is_signature_valid
IsSignatureValid(body, signature, secret) == SignatureText(body, secret) = signature

\* Request bodies: two payloads of different repositories and a text that is
\* no payload.
Bodies == {"b1", "b2", "junk"}

\* serde_json::from_str::<GithubPayload>(&body)
ParsePayload(body) ==
    CASE body = "b1" -> [ok |-> TRUE, full_name |-> "r1"]
      [] body = "b2" -> [ok |-> TRUE, full_name |-> "r2"]
      [] OTHER -> [ok |-> FALSE, full_name |-> ""]

\* The credential files: Credential::get gives "text" (Ok(Some), Text),
\* "other" (Ok(Some), not Text), "none" (Ok(None)) or "corrupt" (Err).
CredentialStore ==
    [id \in {"c_text", "c_text2", "c_ssh", "c_none", "c_bad"} |->
        CASE id = "c_text" -> [state |-> "text", value |-> "s1"]
          [] id = "c_text2" -> [state |-> "text", value |-> "s2"]
          [] id = "c_ssh" -> [state |-> "other", value |-> ""]
          [] id = "c_none" -> [state |-> "none", value |-> ""]
          [] OTHER -> [state |-> "corrupt", value |-> ""]]

\* TriggerType
ManualTrigger == [type |-> "manual", secret_credential_id |-> "", url |-> "", events |-> <<>>]

GithubTrigger(secret_credential_id, url, events) ==
    [type |-> "github", secret_credential_id |-> secret_credential_id, url |-> url,
     events |-> events]

\* The trigger a request for repository r1 with event push matches.
PushTrigger == GithubTrigger("c_text", "r1", <<"push">>)

Triggers ==
    {ManualTrigger, PushTrigger,
     GithubTrigger("c_text2", "r1", <<"push">>),
     GithubTrigger("c_ssh", "r1", <<"push">>),
     GithubTrigger("c_none", "r1", <<"push">>),
     GithubTrigger("c_bad", "r1", <<"push">>),
     GithubTrigger("c_text", "r2", <<"push">>),
     GithubTrigger("c_text", "r1", <<>>),
     GithubTrigger("c_text", "r1", <<"release", "push">>)}

\* job.triggers: none, one trigger, or a trigger followed by PushTrigger.
TriggerLists == {<<>>} \cup {<<t>> : t \in Triggers} \cup {<<t, PushTrigger>> : t \in Triggers}

Requests ==
    [signature : {NoHeader, OpaqueHeader, TextHeader(SignatureText("b1", "s1")),
                  TextHeader(SignatureText("b2", "s1")), TextHeader(<<"sha256=">>)},
     event : {NoHeader, OpaqueHeader, TextHeader(<<"push">>), TextHeader(<<"issues">>)},
     body : Bodies]

\* What the handler does for one trigger: "skip" (continue or fall through),
\* "execute" (job.execute is called) or "panic" (to_str().unwrap() fails).
TriggerOutcome(request, trigger) ==
    IF trigger.type = "manual" THEN "skip"
    ELSE IF request.signature.kind = "absent" \/ request.event.kind = "absent" THEN "skip"
    ELSE IF ~ParsePayload(request.body).ok THEN "skip"
    ELSE LET credential == CredentialStore[trigger.secret_credential_id]
         IN  IF credential.state # "text" THEN "skip"
             ELSE IF request.signature.kind = "opaque" THEN "panic"
             ELSE IF ~IsSignatureValid(request.body, request.signature.v, credential.value)
             THEN "skip"
             ELSE IF ParsePayload(request.body).full_name # trigger.url THEN "skip"
             ELSE IF trigger.events = <<>> THEN "skip"
             ELSE IF request.event.kind = "opaque" THEN "panic"
             ELSE IF \E i \in DOMAIN trigger.events : <<trigger.events[i]>> = request.event.v
             THEN "execute"
             ELSE "skip"

\* The two loops of job_webhook_trigger from trigger t of job j on: the
\* (job, trigger) positions job.execute was called for, and whether the handler
\* got to its response.
RECURSIVE WebhookFrom(_, _, _, _, _)
WebhookFrom(request, jobs, j, t, executed) ==
    IF j > Len(jobs) THEN [executed |-> executed, response |-> "200"]
    ELSE IF t > Len(jobs[j]) THEN WebhookFrom(request, jobs, j + 1, 1, executed)
    ELSE LET outcome == TriggerOutcome(request, jobs[j][t])
         IN  IF outcome = "panic" THEN [executed |-> executed, response |-> "panic"]
             ELSE WebhookFrom(request, jobs, j, t + 1,
                              IF outcome = "execute"
                              THEN Append(executed, [job |-> j, trigger |-> t])
                              ELSE executed)

\* job_webhook_trigger when Job::get_all is Ok.
JobWebhookTrigger(request, jobs) == WebhookFrom(request, jobs, 1, 1, <<>>)

\* job_webhook_trigger: the match on Job::get_all(), whose error ends the
\* request with INTERNAL_SERVER_ERROR.
JobWebhookResponse(request, listed, jobs) ==
    IF listed THEN JobWebhookTrigger(request, jobs)
    ELSE [executed |-> <<>>, response |-> "500"]

\* A request and what Job::get_all gives: the jobs, or an error (no jobs).
WebhookInputs ==
    [request : Requests, listed : {TRUE},
     jobs : UNION {[1..n -> TriggerLists] : n \in 0..MaxJobs}]
        \cup [request : Requests, listed : {FALSE}, jobs : {<<>>}]

NoWebhookOutput == [done |-> FALSE, executed |-> <<>>, response |-> ""]

InitWebhook ==
    /\ idsFile = <<>>
    /\ results = [i \in Ids |-> NoFile]
    /\ dirs = {}
    /\ InitRest
    /\ pin \in WebhookInputs
    /\ pout = NoWebhookOutput

\* One POST to the webhook route.
ApplyWebhook ==
    /\ ~pout.done
    /\ LET r == JobWebhookResponse(pin.request, pin.listed, pin.jobs)
       IN  pout' = [done |-> TRUE, executed |-> r.executed, response |-> r.response]
    /\ UNCHANGED <<diskVars, handles, sub, task, obs, procVars, returned, stopVars, pin, logVars>>

NextWebhook == ApplyWebhook

SpecWebhook == InitWebhook /\ [][NextWebhook]_vars

\* ------------------------------------------------------- credential sync

\* Entries of the credentials list of settings.yml.
MaxYaml == 2

CredentialIds == {"a", "b"}

\* No file <credentials_root>/<id>.yml.
NoCredential == [present |-> FALSE, type |-> "", value |-> "", read_only |-> FALSE]

\* Credential / YamlCredential: get_credential_type, the value, read_only.
CredentialOf(type, value, read_only) ==
    [present |-> TRUE, type |-> type, value |-> value, read_only |-> read_only]

Credentials == {CredentialOf(t, v, r) : t \in {"text", "ssh"}, v \in {"v1", "v2"}, r \in BOOLEAN}

YamlCredentials == [id : CredentialIds, credential : Credentials]

\* Credential::sync called from a job: save when there is no stored credential
\* of that id or its type differs.
CredentialSync(store, id, credential) ==
    IF store[id].present /\ store[id].type = credential.type
    THEN store
    ELSE [store EXCEPT ![id] = credential]

\* What Credential::sync logs for the entry: "Created", "Updated" or
\* "No changes".
CredentialSyncLog(store, id, credential) ==
    IF ~store[id].present THEN "Created"
    ELSE IF store[id].type # credential.type THEN "Updated"
    ELSE "No changes"

\* The first loop of Settings::sync from entry i on: the store, the ids pushed
\* to credential_ids and what was logged for each entry.
RECURSIVE SyncEntries(_, _, _, _, _)
SyncEntries(store, settings, i, credential_ids, log) ==
    IF i > Len(settings)
    THEN [store |-> store, credential_ids |-> credential_ids, log |-> log]
    ELSE IF settings[i].credential.read_only
    THEN SyncEntries(store, settings, i + 1, credential_ids, Append(log, "Skipping read-only"))
    ELSE SyncEntries(CredentialSync(store, settings[i].id, settings[i].credential),
                     settings, i + 1, credential_ids \cup {settings[i].id},
                     Append(log, CredentialSyncLog(store, settings[i].id, settings[i].credential)))

\* Variant that deletes every stored credential that is not read-only.
DeleteEveryWritable(store, credential_ids) ==
    [id \in CredentialIds |->
        IF store[id].present /\ ~store[id].read_only THEN NoCredential ELSE store[id]]

\* The second loop: stored credentials that were not synced and are not
\* read-only are deleted.
DeleteUnlisted(store, credential_ids) ==
    [id \in CredentialIds |->
        IF store[id].present /\ id \notin credential_ids /\ ~store[id].read_only
        THEN NoCredential
        ELSE store[id]]

\* Settings::sync
SettingsSync(store, settings) ==
    LET r == SyncEntries(store, settings, 1, {}, <<>>)
    IN  DeleteUnlisted(r.store, r.credential_ids)

\* What one Settings::sync logged for its entries and which ids it deleted.
SettingsSyncLog(store, settings) ==
    LET r == SyncEntries(store, settings, 1, {}, <<>>)
    IN  [log |-> r.log,
         deleted |-> {id \in CredentialIds :
                         DeleteUnlisted(r.store, r.credential_ids)[id] # r.store[id]}]

SyncInputs ==
    [store : [CredentialIds -> Credentials \cup {NoCredential}],
     settings : UNION {[1..n -> YamlCredentials] : n \in 0..MaxYaml}]

\* The syncs run so far, the store before and after the last one, and what
\* the last one logged and deleted.
NoSyncOutput ==
    [done |-> FALSE, runs |-> 0,
     before |-> [id \in CredentialIds |-> NoCredential],
     store |-> [id \in CredentialIds |-> NoCredential],
     log |-> <<>>, deleted |-> {}]

InitSync ==
    /\ idsFile = <<>>
    /\ results = [i \in Ids |-> NoFile]
    /\ dirs = {}
    /\ InitRest
    /\ pin \in SyncInputs
    /\ pout = NoSyncOutput

\* The sync operation of a live run on a directory with a settings.yml, and
\* the same operation once more on the store it left.
ApplySync ==
    /\ pout.runs < 2
    /\ LET store == IF pout.done THEN pout.store ELSE pin.store
           r == SettingsSyncLog(store, pin.settings)
       IN  pout' = [done |-> TRUE, runs |-> pout.runs + 1, before |-> store,
                    store |-> SettingsSync(store, pin.settings),
                    log |-> r.log, deleted |-> r.deleted]
    /\ UNCHANGED <<diskVars, handles, sub, task, obs, procVars, returned, stopVars, pin, logVars>>

NextSync == ApplySync

SpecSync == InitSync /\ [][NextSync]_vars

\* ------------------------------------------- operations that run commands

\* The most commands one operation runs.
MaxCommands == 2

\* What happens to a command handed to execute_command: sh cannot be spawned,
\* or the process exits with status zero, or with another status.
CommandOutcomes == {"exit_zero", "exit_nonzero", "spawn_failed"}

\* The text of the io::Error of a failed spawn.
SpawnError == "No such file or directory (os error 2)"

\* Result<(), String>
OkUnit == [ok |-> TRUE, err |-> ""]

ErrOf(e) == [ok |-> FALSE, err |-> e]

\* execute_command: spawn()...map_err(|e| e.to_string())?, then execute_script.
ExecuteCommand(outcome) ==
    CASE outcome = "spawn_failed" -> ErrOf(SpawnError)
      [] outcome = "exit_nonzero" -> ErrOf(ExitStatusError)
      [] OTHER -> OkUnit

\* execute_command(..)? on the commands i..n in turn: the first error returns,
\* ran counts the commands handed to execute_command.
RECURSIVE RunEach(_, _, _, _)
RunEach(outcomes, i, n, ran) ==
    IF i > n
    THEN [res |-> OkUnit, ran |-> ran]
    ELSE LET r == ExecuteCommand(outcomes[i])
         IN  IF r.ok
             THEN RunEach(outcomes, i + 1, n, ran + 1)
             ELSE [res |-> r, ran |-> ran + 1]

\* BashScript::execute on `lines` non-empty lines.
BashExecute(lines, outcomes, dry_run) ==
    IF dry_run THEN [res |-> OkUnit, ran |-> 0] ELSE RunEach(outcomes, 1, lines, 0)

\* git_clone with an ssh credential: chmod 400 on the key file, then git clone.
GitClone(outcomes, dry_run) ==
    IF dry_run THEN [res |-> OkUnit, ran |-> 0] ELSE RunEach(outcomes, 1, 2, 0)

\* docker_run: execute_command(&command.join(" "), context)?
DockerRun(outcomes, dry_run) ==
    IF dry_run THEN [res |-> OkUnit, ran |-> 0] ELSE RunEach(outcomes, 1, 1, 0)

\* docker_build: the value of execute_command is dropped, then Ok(()).
DockerBuild(outcomes, dry_run) ==
    [res |-> OkUnit, ran |-> IF dry_run THEN 0 ELSE 1]

\* docker_stop_and_rm: let _ = docker stop; let _ = docker rm; the caller
\* returns Ok(()).
DockerStopAndRm(outcomes, dry_run) ==
    [res |-> OkUnit, ran |-> IF dry_run THEN 0 ELSE 2]

OperationKinds == {"bash", "git-clone", "docker-build", "docker-stop", "docker-run"}

\* ScriptType::execute
ScriptTypeExecute(kind, lines, outcomes, dry_run) ==
    CASE kind = "bash" -> BashExecute(lines, outcomes, dry_run)
      [] kind = "git-clone" -> GitClone(outcomes, dry_run)
      [] kind = "docker-build" -> DockerBuild(outcomes, dry_run)
      [] kind = "docker-stop" -> DockerStopAndRm(outcomes, dry_run)
      [] OTHER -> DockerRun(outcomes, dry_run)

\* execute_job_result_internal on a script of one step with one operation:
\* start_step, the operation, finish_step by its result, then the final
\* is_success of a run that did not return early.
RunOneStep(kind, lines, outcomes, dry_run) ==
    LET jr0 == IF dry_run THEN NewDryJobResult(1) ELSE NewJobResult(1, 1)
        t0 == [IdleTask EXCEPT !.jr = StartStep(jr0).jr, !.pc = "exec"]
        r == ScriptTypeExecute(kind, lines, outcomes, dry_run)
        t1 == IF r.res.ok THEN AfterStepOk(t0) ELSE AfterStepError(t0, r.res.err)
    IN  [res |-> r.res, ran |-> r.ran,
         jr |-> IF t1.pc = "final" THEN [t1.jr EXCEPT !.is_success = t1.is_success]
                ELSE t1.jr]

OperationInputs ==
    [kind : OperationKinds, lines : 1..MaxCommands,
     outcomes : [1..MaxCommands -> CommandOutcomes], dry_run : BOOLEAN]

NoOperationOutput == [done |-> FALSE, res |-> OkUnit, ran |-> 0, jr |-> NewJobResult(0, 0)]

InitOperation ==
    /\ idsFile = <<>>
    /\ results = [i \in Ids |-> NoFile]
    /\ dirs = {}
    /\ InitRest
    /\ pin \in OperationInputs
    /\ pout = NoOperationOutput

\* One run of a one-step script whose step holds the operation.
ApplyOperation ==
    /\ ~pout.done
    /\ LET r == RunOneStep(pin.kind, pin.lines, pin.outcomes, pin.dry_run)
       IN  pout' = [done |-> TRUE, res |-> r.res, ran |-> r.ran, jr |-> r.jr]
    /\ UNCHANGED <<diskVars, handles, sub, task, obs, procVars, returned, stopVars, pin, logVars>>

NextOperation == ApplyOperation

SpecOperation == InitOperation /\ [][NextOperation]_vars

\* ------------------------------------------------------ BashScript::execute

\* Number of pieces a bash code text is put together from.
MaxBashPieces == 3

NewlineChar == "\n"

BashPieces == {Token(<<"k">>), <<"a">>, <<NewlineChar>>}

RECURSIVE BashCodes(_)
BashCodes(n) ==
    IF n = 0 THEN {<<>>}
    ELSE BashCodes(n - 1) \cup {t \o p : t \in BashCodes(n - 1), p \in BashPieces}

\* Values of the parameter k: empty, one word, two lines, an array.
BashValues ==
    {StringValue(<<>>), StringValue(<<"x">>), StringValue(<<"x", NewlineChar, "y">>),
     StringArrayValue(<<<<"a">>, <<"b">>>>)}

BashMaps == UNION {[K -> BashValues] : K \in SUBSET {<<"k">>}}

\* str::lines on a text: the pieces between line breaks; a final piece
\* without a line break counts when it is not empty.
RECURSIVE StrLinesFrom(_, _)
StrLinesFrom(text, line) ==
    IF text = <<>> THEN (IF line = <<>> THEN <<>> ELSE <<line>>)
    ELSE IF Head(text) = NewlineChar THEN <<line>> \o StrLinesFrom(Tail(text), <<>>)
    ELSE StrLinesFrom(Tail(text), Append(line, Head(text)))

StrLines(text) == StrLinesFrom(text, <<>>)

\* What BashScript::execute comes to: Ok(()), Err(msg) or a panic, the
\* originals it logged after "command: " and the lines it handed to
\* execute_command.
BashOutcome(kind, msg, logged, commands) ==
    [kind |-> kind, msg |-> msg, logged |-> logged, commands |-> commands]

\* The for loop over the lines of the substituted code; i is the 0-based index
\* into original_lines, and original_lines[i] panics past the end.
RECURSIVE BashLoop(_, _, _, _, _, _)
BashLoop(original_lines, lines, i, dry_run, logged, commands) ==
    IF lines = <<>> THEN BashOutcome("Ok", <<>>, logged, commands)
    ELSE IF Head(lines) = <<>>
    THEN BashLoop(original_lines, Tail(lines), i + 1, dry_run, logged, commands)
    ELSE IF i + 1 > Len(original_lines)
    THEN BashOutcome("Panic", <<>>, logged, commands)
    ELSE BashLoop(original_lines, Tail(lines), i + 1, dry_run,
                  Append(logged, original_lines[i + 1]),
                  IF dry_run THEN commands ELSE Append(commands, Head(lines)))

\* BashScript::execute with commands that exit with status zero.
BashScriptExecute(code, parameters, dry_run) ==
    LET replaced_code == SubstituteParameters(code, parameters, FALSE)
    IN  CASE replaced_code.kind = "Single" ->
                 BashLoop(StrLines(code), StrLines(replaced_code.s), 0, dry_run, <<>>, <<>>)
          [] replaced_code.kind = "Multiple" ->
                 BashOutcome("Err", <<"Code parameter cannot be an array">>, <<>>, <<>>)
          [] replaced_code.kind = "None" -> BashOutcome("Ok", <<>>, <<>>, <<>>)
          [] replaced_code.kind = "Err" -> BashOutcome("Err", replaced_code.msg, <<>>, <<>>)
          [] OTHER -> BashOutcome("NoReturn", <<>>, <<>>, <<>>)

BashInputs == [code : BashCodes(MaxBashPieces), parameters : BashMaps, dry_run : BOOLEAN]

NoBashOutput == [done |-> FALSE, out |-> BashOutcome("", <<>>, <<>>, <<>>)]

InitBash ==
    /\ idsFile = <<>>
    /\ results = [i \in Ids |-> NoFile]
    /\ dirs = {}
    /\ InitRest
    /\ pin \in BashInputs
    /\ pout = NoBashOutput

\* One call of BashScript::execute.
ApplyBash ==
    /\ ~pout.done
    /\ pout' = [done |-> TRUE,
                out |-> BashScriptExecute(pin.code, pin.parameters, pin.dry_run)]
    /\ UNCHANGED <<diskVars, handles, sub, task, obs, procVars, returned, stopVars, pin, logVars>>

NextBash == ApplyBash

SpecBash == InitBash /\ [][NextBash]_vars

\* ------------------------------------------- execute_script and its pumps

\* Lines a child process writes to each of its pipes.
MaxLines == 2

\* The lines a process writes: a text or an empty line.
OutputLines == {<<"h", "e", "l", "l", "o">>, <<>>}

\* The level a pump logs at.
LevelOf(stream) == IF stream = "stdout" THEN "Info" ELSE "Error"

\* The pid of the followed child.
PumpChildPid == 1

InitPump ==
    /\ idsFile = <<>>
    /\ results = [i \in Ids |-> NoFile]
    /\ dirs = {}
    /\ InitRest
    /\ pin = NoInput
    /\ pout = NoOutput

PumpUnchanged ==
    UNCHANGED <<diskVars, handles, sub, task, obs, procVars, returned, stopVars, paramVars, logs>>

\* start_step of the only step of a live run, then execute_script up to its
\* wait loop: push the pid, save, take the pipes, spawn both pumps.
ExecuteScriptSpawn ==
    /\ pump.child = "none"
    /\ LET jr == [StartStep(NewJobResult(1, 1)).jr EXCEPT
                      !.child_process_ids = Append(@, PumpChildPid)]
       IN  pump' = [pump EXCEPT !.child = "running", !.saved = jr,
                                !.t = [IdleTask EXCEPT !.jr = jr, !.pc = "wait"]]
    /\ PumpUnchanged

\* The child writes a line to one of its pipes.
ChildWrite(stream, line) ==
    /\ pump.child = "running"
    /\ pump.written[stream] < MaxLines
    /\ pump' = [pump EXCEPT !.written[stream] = @ + 1, !.pipe[stream] = Append(@, line)]
    /\ PumpUnchanged

\* The child exits; what it wrote stays in the pipes.
ChildExit(status) ==
    /\ pump.child = "running"
    /\ pump' = [pump EXCEPT !.child = "exited", !.status = status]
    /\ PumpUnchanged

\* One pass of a pump task, which runs on the runtime's worker threads beside
\* the engine task: the next line of the pipe, add_log if it is not empty.
PumpForward(stream) ==
    /\ pump.pipe[stream] # <<>>
    /\ LET line == Head(pump.pipe[stream])
       IN  pump' = [pump EXCEPT
                        !.pipe[stream] = Tail(@),
                        !.log = IF line = <<>> THEN @
                                ELSE Append(@, [level |-> LevelOf(stream), message |-> line])]
    /\ PumpUnchanged

\* try_wait sees the child gone: break, then yield_now.
ExecuteScriptBreak ==
    /\ pump.t.pc = "wait"
    /\ pump.child = "exited"
    /\ pump' = [pump EXCEPT !.t.pc = "yield"]
    /\ PumpUnchanged

\* Polled again: child.wait(), pop, the status decides; the engine calls
\* finish_step, which saves.
ExecuteScriptReturn ==
    /\ pump.t.pc = "yield"
    /\ LET popped == [pump.t EXCEPT !.jr.child_process_ids = <<>>]
           t == IF pump.status = 0 THEN AfterStepOk(popped)
                ELSE AfterStepError(popped, ExitStatusError)
       IN  pump' = [pump EXCEPT !.t = t, !.saved = t.jr]
    /\ PumpUnchanged

\* After the loop: job_result.is_success = is_success; save.
PumpEngineFinal ==
    /\ pump.t.pc = "final"
    /\ LET jr == [pump.t.jr EXCEPT !.is_success = pump.t.is_success]
       IN  pump' = [pump EXCEPT !.t.jr = jr, !.t.pc = "done", !.saved = jr]
    /\ PumpUnchanged

NextPump ==
    \/ ExecuteScriptSpawn
    \/ \E stream \in Streams, line \in OutputLines : ChildWrite(stream, line)
    \/ \E status \in {0, 1} : ChildExit(status)
    \/ \E stream \in Streams : PumpForward(stream)
    \/ ExecuteScriptBreak
    \/ ExecuteScriptReturn
    \/ PumpEngineFinal

SpecPump == InitPump /\ [][NextPump]_vars

\* ---------------------------------------------------------------- Job::sync

\* Steps of the script a synced job names.
MaxSyncSteps == 2

\* No file jobs/<id>.yml.
NoJob ==
    [file |-> "none", name |-> "", parameters |-> <<>>, triggers |-> <<>>,
     script_id |-> "", read_only |-> FALSE]

\* Job {name, parameters, triggers, script_id, read_only} of one id.
Jobs ==
    [file : {"ok"}, name : {"n1", "n2"},
     parameters : {<<>>, <<[name |-> "p", default |-> NoneV]>>},
     triggers : {<<>>, <<"manual">>},
     script_id : {"s1", "s2"},
     read_only : BOOLEAN]

\* A file jobs/<id>.yml that does not parse.
CorruptJob == [NoJob EXCEPT !.file = "corrupt"]

\* No script of the id the job names.
NoScript == [present |-> FALSE, parameters |-> <<>>, fails |-> <<>>]

\* The script the job names: its parameters and, for each step, whether an
\* operation of the step returns an error in a dry run.
Scripts ==
    [present : {TRUE},
     parameters : {<<>>, <<[name |-> "p", required |-> TRUE, default |-> NoneV]>>},
     fails : UNION {[1..n -> BOOLEAN] : n \in 0..MaxSyncSteps}]

\* execute_job_result_internal on a dry-run result, from the top of its loop.
RECURSIVE DryRunLoop(_, _)
DryRunLoop(t, fails) ==
    LET r == StartStep(t.jr)
        started == [t EXCEPT !.jr = r.jr]
        after == IF fails[r.jr.current_step_name]
                 THEN AfterStepError(started, "Parameter 'missing.param' not found")
                 ELSE AfterStepOk(started)
    IN  IF ~r.ok THEN [t EXCEPT !.pc = "done", !.ret = <<"No current step">>]
        ELSE IF after.pc = "loop" THEN DryRunLoop(after, fails)
        ELSE [after EXCEPT !.pc = "done"]

\* JobExecutor::validate: Ok(()) or the error of the dry run.
ExecutorValidate(script) ==
    LET t == DryRunLoop([IdleTask EXCEPT !.pc = "loop",
                                         !.jr = NewDryJobResult(Len(script.fails))],
                        script.fails)
    IN  [ok |-> t.ret = <<>>, err |-> t.ret]

\* Job::validate(None, {}): validate_parameters, get_script, executor.validate.
JobValidate(job, script) ==
    IF ~script.present THEN [ok |-> FALSE, err |-> <<"Script not found: ", job.script_id>>]
    ELSE LET v == ValidateParameters(job.parameters, script.parameters)
         IN  IF ~v.ok THEN v ELSE ExecutorValidate(script)

\* existing_job.name != self.name || ... || existing_job.script_id != self.script_id
NeedsUpdate(existing_job, job) ==
    \/ existing_job.name # job.name
    \/ existing_job.parameters # job.parameters
    \/ existing_job.triggers # job.triggers
    \/ existing_job.script_id # job.script_id

\* What Job::sync comes to: its result, the file after it and what it logged.
JobSyncOutcome(ok, err, file, log) == [ok |-> ok, err |-> err, file |-> file, log |-> log]

\* Variant that saves the job before it validates it.
JobSyncSaveFirst(stored, job, script) ==
    LET v == JobValidate(job, script)
    IN  JobSyncOutcome(v.ok, v.err, job, "")

\* Job::sync
JobSync(stored, job, script) ==
    LET v == JobValidate(job, script)
    IN  IF ~v.ok THEN JobSyncOutcome(FALSE, v.err, stored, "")
        ELSE IF stored.file = "corrupt"
        THEN JobSyncOutcome(FALSE, <<"Failed to parse job YAML">>, stored, "")
        ELSE IF stored.file = "none" THEN JobSyncOutcome(TRUE, <<>>, job, "Created job")
        ELSE IF NeedsUpdate(stored, job) THEN JobSyncOutcome(TRUE, <<>>, job, "Updated job")
        ELSE JobSyncOutcome(TRUE, <<>>, stored, "No changes in job")

JobSyncInputs ==
    [stored : Jobs \cup {NoJob, CorruptJob}, job : Jobs, script : Scripts \cup {NoScript}]

NoJobSyncOutput == [done |-> FALSE, out |-> JobSyncOutcome(TRUE, <<>>, NoJob, "")]

InitJobSync ==
    /\ idsFile = <<>>
    /\ results = [i \in Ids |-> NoFile]
    /\ dirs = {}
    /\ InitRest
    /\ pin \in JobSyncInputs
    /\ pout = NoJobSyncOutput

\* One call of job.sync(Some(job_result)).
ApplyJobSync ==
    /\ ~pout.done
    /\ pout' = [done |-> TRUE, out |-> JobSync(pin.stored, pin.job, pin.script)]
    /\ UNCHANGED <<diskVars, handles, sub, task, obs, procVars, returned, stopVars, pin, logVars>>

NextJobSync == ApplyJobSync

SpecJobSync == InitJobSync /\ [][NextJobSync]_vars

\* ========================================================== id allocation

\* Ids (as numbers) of the results on disk.
Persisted(res) == {i \in Ids : res[i].file = "ok"}

\* C1: for any number of concurrent submissions and any interleaving of their
\* calls of next_job_result_id, the JobResult ids handed out are pairwise
\* distinct.
C1_DistinctIds ==
    /\ \A i, j \in 1..Len(returned) : i # j => returned[i].id # returned[j].id
    /\ \A s, t \in Slots :
         (s # t /\ sub[s].id # 0 /\ sub[t].id # 0) => sub[s].id # sub[t].id

\* Two submissions hold an id at the same time, neither saved yet.
C1_Witness == \A s \in Slots : sub[s].pc = "allocated"

\* C2: every id returned by next_job_result_id, read as an integer, is strictly
\* greater than every id returned by an earlier call (the program removes no
\* result directory).
C2_Monotonic ==
    \A i, j \in 1..Len(returned) :
        i < j => ParseOrZero(returned[i].id) < ParseOrZero(returned[j].id)

\* A second call has returned.
C2_Witness == Len(returned) >= 2 /\ \E s \in Slots : sub[s].pc = "returned"

\* C3: a successful call of next_job_result_id that reads counter value n (0 for
\* absent, empty or unparsable text) with the results E on disk returns the
\* least k > n not in E, leaves exactly the decimal text of k in the counter
\* file, and never returns the id of an existing result.
C3_LeastFreeId ==
    [][returned' # returned =>
        LET n == ParseOrZero(idsFile)
            E == Persisted(results)
            call == returned'[Len(returned')]
            k == ParseOrZero(call.id)
        IN  /\ call.n = n
            /\ k > n
            /\ k \notin E
            /\ \A m \in Ids : (n < m /\ m < k) => m \in E
            /\ idsFile' = call.id
            /\ ParseOrZero(idsFile') = k]_vars

\* A call skipped an id that is on disk, and one started from a counter file
\* that is no number.
C3_Witness ==
    /\ \E i \in 1..Len(returned) : ParseOrZero(returned[i].id) > returned[i].n + 1
    /\ \A s \in Slots : sub[s].id # 0

\* ============================================================= supervisor

\* The run of slot s was cancelled and its observer has finished the cleanup.
CleanedUp(s) == task[s].pc = "cancelled" /\ obs[s].pc = "done"

\* C4: once stop_job has cancelled the engine task of a result and the observer
\* has finished, the persisted result is aborted (its current step has status
\* Aborted, not Failed), finished_at is set and child_process_ids is empty.
C4_AbortedAfterStop ==
    \A s \in RunSlots :
        (CleanedUp(s) /\ Len(results[sub[s].id].jr.steps) > 0) =>
            LET jr == results[sub[s].id].jr
            IN  /\ jr.steps[jr.current_step_name].status = "aborted"
                /\ jr.finished_at
                /\ jr.child_process_ids = <<>>

\* C5: after the kill loop of the cancellation cleanup no process recorded in
\* the persisted child_process_ids is left alive: the root of every recorded
\* tree has been signalled along with its descendants.
C5_TreeKilled ==
    \A s \in RunSlots :
        obs[s].pc = "killed" =>
            \A root \in Range(obs[s].jr.child_process_ids) : root \notin alive

\* A stop_job step (one that is no stuttering step).
StopStep == lastStop' # lastStop \/ stopOk' # stopOk

\* C6: stop_job(id) on an id in the handle map aborts that task, removes the
\* entry and returns Ok; on an id not in the map it fails with "Job <id> not
\* found" and leaves the map as it is; so at most one stop_job per id returns Ok.
C6_StopJob ==
    /\ [][StopStep =>
            LET id == lastStop'.id
            IN  IF id \in DOMAIN handles
                THEN /\ lastStop'.ok
                     /\ task'[handles[id]].abort
                     /\ id \notin DOMAIN handles'
                     /\ \A k \in DOMAIN handles : k # id =>
                            k \in DOMAIN handles' /\ handles'[k] = handles[k]
                     /\ stopOk'[id] = stopOk[id] + 1
                ELSE /\ ~lastStop'.ok
                     /\ lastStop'.err = <<"Job ", ToString(id), " not found">>
                     /\ handles' = handles
                     /\ stopOk' = stopOk]_vars
    /\ [](\A id \in Ids : stopOk[id] <= 1)

\* A second stop_job on an id has returned the not-found error after the first
\* returned Ok.
C6_Witness ==
    /\ lastStop.id # 0
    /\ ~lastStop.ok
    /\ stopOk[lastStop.id] = 1

\* C7: the handle map holds no id of a run whose engine task has returned and
\* whose completion the observer has seen: the handle is released when the
\* engine returns.
C7_HandleReleased ==
    \A id \in DOMAIN handles :
        ~(task[handles[id]].pc = "done" /\ obs[handles[id]].pc = "done")

\* A step in which execute_with_script returns the error of validate_parameters.
ValidationFailure(s) ==
    /\ sub[s].pc = "idle"
    /\ sub'[s].pc = "failed"
    /\ sub'[s].err # <<>>
    /\ sub'[s].err[1] = MissingPrefix

\* C10: a submission that fails parameter validation returns the error and
\* changes nothing: the counter file, the result directories, result.yml and
\* log files, the tasks and the handle map are as before.
C10_ValidationNoSideEffects ==
    [][\A s \in Slots : ValidationFailure(s) =>
            /\ UNCHANGED <<idsFile, results, dirs, logFiles>>
            /\ UNCHANGED <<handles, task, obs, returned>>
            /\ UNCHANGED <<alive, created>>]_vars

\* A submission failed validation while another one held a fresh id.
C10_Witness ==
    \E s, t \in Slots :
        /\ sub[s].pc = "failed"
        /\ sub[s].err # <<>>
        /\ sub[s].err[1] = MissingPrefix
        /\ sub[t].pc = "allocated"

\* ============================================================== parameters

\* Positions of the script parameters of the given name.
ScriptEntries(name) == {i \in 1..Len(pin.script) : pin.script[i].name = name}

JobEntries(name) == {i \in 1..Len(pin.job) : pin.job[i].name = name}

\* No name occurs twice in the list.
DistinctNames(params) ==
    \A i, j \in 1..Len(params) : i # j => params[i].name # params[j].name

Least(S) == CHOOSE x \in S : \A y \in S : x <= y

Greatest(S) == CHOOSE x \in S : \A y \in S : y <= x

\* C8 as stated: for every script parameter p the merged value under
\* "parameters.<p>" is the caller-supplied value if there is one, else the
\* Job's default for p if the Job has one, else the script parameter's default;
\* a parameter with no value is omitted.
C8_ThreeLevelPrecedence ==
    (pout.merged /\ DistinctNames(pin.script) /\ DistinctNames(pin.job)) =>
        \A i \in 1..Len(pin.script) :
            LET p == pin.script[i].name
                jobDefault == IF JobEntries(p) = {} THEN NoneV
                              ELSE pin.job[Least(JobEntries(p))].default
                expected == IF p \in DOMAIN pin.provided THEN pin.provided[p]
                            ELSE IF jobDefault # NoneV THEN jobDefault
                            ELSE pin.script[i].default
            IN  MapGet(pout.map, <<"parameters.", p>>) = expected

\* C8 (amended): for every script parameter p that the Job defines, the merged
\* value under "parameters.<p>" is the caller-supplied value if there is one,
\* else the default of the Job's (first) parameter p, and the script default is
\* not consulted; for every script parameter p that the Job does not define it
\* is the script parameter's default (of the last entry of that name that has
\* one) and a caller-supplied value is ignored.  A parameter with no value is
\* omitted from the map.
C8_JobGatedPrecedence ==
    pout.merged =>
        \A p \in ParamNames :
            LET key == <<"parameters.", p>>
                withDefault == {i \in ScriptEntries(p) : pin.script[i].default # NoneV}
                expected ==
                    IF ScriptEntries(p) = {} THEN NoneV
                    ELSE IF JobEntries(p) # {}
                    THEN IF p \in DOMAIN pin.provided THEN pin.provided[p]
                         ELSE pin.job[Least(JobEntries(p))].default
                    ELSE IF withDefault = {} THEN NoneV
                    ELSE pin.script[Greatest(withDefault)].default
            IN  /\ (expected = NoneV) <=> (key \notin DOMAIN pout.map)
                /\ expected # NoneV => pout.map[key] = expected

\* The caller supplied a value for a script parameter that the Job does not
\* define, and the merged value is the script default.
C8_Witness ==
    /\ pout.merged
    /\ "p" \in DOMAIN pin.provided
    /\ JobEntries("p") = {}
    /\ <<"parameters.", "p">> \in DOMAIN pout.map
    /\ pout.map[<<"parameters.", "p">>] = "d"
    /\ JobEntries("q") # {}
    /\ <<"parameters.", "q">> \in DOMAIN pout.map
    /\ pout.map[<<"parameters.", "q">>] = "j"

\* Positions of the script parameters that are required, have no default and
\* are not defined by the Job.
MissingEntries ==
    {i \in 1..Len(pin.script) :
        /\ pin.script[i].required
        /\ pin.script[i].default = NoneV
        /\ JobEntries(pin.script[i].name) = {}}

ExactlyOneToken(t) ==
    /\ Len(t) >= 3
    /\ OccursAt(t, Open, 1)
    /\ Find(t, <<Close>>) = Len(t)

TokenKey(t) == SubSeq(t, 3, Len(t) - 1)

NoScan == [kind |-> "", text |-> <<>>, key |-> <<>>]

\* One pass over the template from left to right that reads each token of the
\* template once and never looks into the text it puts in: the text with every
\* token replaced ("ok"), or the first thing that stops the pass, a "$(" without
\* ")" ("bracket") or a key that has no value ("absent").
RECURSIVE EagerScan(_, _)
EagerScan(t, parameters) ==
    LET start == Find(t, Open)
        remaining == SubSeq(t, start, Len(t))
        end == Find(remaining, <<Close>>)
        key == SubSeq(remaining, 3, end - 1)
        rest == EagerScan(SubSeq(remaining, end + 1, Len(remaining)), parameters)
    IN  IF start = 0 THEN [NoScan EXCEPT !.kind = "ok", !.text = t]
        ELSE IF end = 0 THEN [NoScan EXCEPT !.kind = "bracket"]
        ELSE IF key \notin DOMAIN parameters THEN [NoScan EXCEPT !.kind = "absent", !.key = key]
        ELSE IF rest.kind # "ok" THEN rest
        ELSE [rest EXCEPT !.text = SubSeq(t, 1, start - 1)
                                      \o RenderValue(parameters[key]) \o rest.text]

\* C13: substitute_parameters returns Multiple(arr) if and only if the template
\* it was called with is exactly one token $(k) and k resolves to a StringArray
\* arr; every other successful call returns Single(s) with s the template in
\* which each token is replaced by its rendered value.
C13_MultipleIffPureArray ==
    (pout.done /\ pout.result.kind \in {"Single", "Multiple"}) =>
        LET t == pin.template
            pureArray == /\ ExactlyOneToken(t)
                         /\ TokenKey(t) \in DOMAIN pin.parameters
                         /\ pin.parameters[TokenKey(t)].type = "StringArray"
            e == EagerScan(t, pin.parameters)
        IN  /\ pout.result.kind = "Multiple" <=> pureArray
            /\ pout.result.kind = "Multiple" => pout.result.arr = pin.parameters[TokenKey(t)].a
            /\ pout.result.kind = "Single" => (e.kind = "ok" /\ pout.result.s = e.text)

\* C14: for a template that references an absent key, substitute_parameters
\* returns None exactly when optional is true and the template it was called
\* with is exactly one token; otherwise it returns the error "Parameter '<KEY>'
\* not found"; a "$(" with no ")" after it gives the missing-bracket error.
C14_AbsentKey ==
    pout.done =>
        LET t == pin.template
            e == EagerScan(t, pin.parameters)
        IN  /\ e.kind = "absent" =>
                 pout.result = IF pin.optional /\ ExactlyOneToken(t)
                               THEN SubstNone
                               ELSE NotFoundError(e.key)
            /\ e.kind = "bracket" => pout.result = MissingBracket
            /\ pout.result.kind = "None" =>
                 (pin.optional /\ ExactlyOneToken(t) /\ e.kind = "absent")

\* C15: substitution is eager: when every token of the template has a value the
\* call returns, and a Single result is the template with the values put in
\* literally; text that came in as a value is not scanned for tokens and no key
\* named only inside a value is looked up.
C15_Eager ==
    pout.done =>
        LET e == EagerScan(pin.template, pin.parameters)
        IN  e.kind = "ok" =>
              /\ pout.result.kind \in {"Single", "Multiple"}
              /\ pout.result.kind = "Single" => pout.result.s = e.text


\* ------------------------------------------------------------- dry run

\* The slot is inside JobExecutor::validate or has returned from it.
InDryRun(s) == sub[s].pc \in {"dry", "validated"}

\* What validate must not touch: the id counter, the results root, the cancel
\* handles and the process table.
DryRunPure ==
    [][(\E s \in RunSlots : InDryRun(s)')
         => UNCHANGED <<idsFile, results, dirs, handles, alive, parent, created, signalled>>]_vars

\* A dry run in which no operation failed returns Ok(()).
DryRunOk ==
    \A s \in RunSlots :
        (sub[s].pc = "validated" /\ \A k \in 1..Len(task[s].jr.steps) :
                                       ~(task[s].jr.steps[k].finished_at
                                         /\ task[s].jr.steps[k].status = "failed"))
            => sub[s].err = <<>>

\* C11: JobExecutor::validate creates no file under the results root, does not
\* advance the id counter, spawns no process and registers no cancel handle, and
\* returns Ok(()) for a job of which no operation fails.
C11_DryRunPureAndOk == DryRunPure /\ []DryRunOk

\* C12: in a dry run the first operation error ends the run and is returned as
\* "Error in step <step name>: <operation error>", no later step being started;
\* in a live run the engine returns Ok(()) and the failure is the persisted
\* result: step failed, result failed and finished.
C12_ErrorReturnedOrRecorded ==
    /\ [][\A s \in RunSlots :
            \A k \in 1..Len(task[s].jr.steps) :
                (/\ task[s].pc = "exec"
                 /\ task'[s].jr.steps[k].finished_at
                 /\ ~task[s].jr.steps[k].finished_at
                 /\ ~task'[s].is_success)
                => IF task[s].jr.dry_run
                   THEN /\ task'[s].pc = "done"
                        /\ \E e \in OpErrors : task'[s].ret = ErrorInStep(k, e)
                        /\ \A i \in (k + 1)..Len(task[s].jr.steps) :
                               ~task'[s].jr.steps[i].started_at
                   ELSE /\ task'[s].pc = "final"
                        /\ task'[s].ret = <<>>]_vars
    /\ [][\A s \in RunSlots :
            (task[s].pc = "done" /\ task[s].jr.dry_run /\ sub[s].pc = "dry")
                => /\ task'[s] = task[s]
                   /\ sub'[s].pc = "validated" => sub'[s].err = task[s].ret]_vars
    /\ [](\A s \in RunSlots :
            (task[s].pc = "done" /\ ~task[s].jr.dry_run /\ ~task[s].is_success)
                => /\ task[s].ret = <<>>
                   /\ results[task[s].jr.id].file = "ok"
                   /\ LET jr == results[task[s].jr.id].jr
                      IN  /\ jr.finished_at
                          /\ ~jr.is_success
                          /\ jr.current_step_name \in 1..Len(jr.steps)
                          /\ jr.steps[jr.current_step_name].finished_at
                          /\ jr.steps[jr.current_step_name].status = "failed")

\* A dry run returned the error of its second step, and a live run ended with a
\* failed second step.
C12_Witness ==
    \E s \in RunSlots :
        /\ sub[s].pc = "validated"
        /\ sub[s].err \in {ErrorInStep(2, e) : e \in OpErrors}

C12_WitnessLive ==
    \E s \in RunSlots :
        /\ task[s].pc = "done" /\ ~task[s].jr.dry_run /\ ~task[s].is_success
        /\ task[s].jr.current_step_name = 2


\* ------------------------------------------------------- step sequencing

\* The steps that have been started and have not finished.
InProgress(jr) == {k \in 1..Len(jr.steps) : jr.steps[k].started_at /\ ~jr.steps[k].finished_at}

\* A step is started only when the step before it has finished with success,
\* and at most one step is in progress.
Sequential(jr) ==
    /\ \A k \in 1..(Len(jr.steps) - 1) :
           jr.steps[k + 1].started_at
               => /\ jr.steps[k].started_at
                  /\ jr.steps[k].finished_at
                  /\ jr.steps[k].status = "success"
    /\ Cardinality(InProgress(jr)) <= 1

\* C16: steps run one after the other in declaration order: in the result the
\* engine holds and in every result on disk, step i+1 is started only if step i
\* has finished with success, and no two steps are started and unfinished.
C16_StepsSequential ==
    /\ \A s \in RunSlots : Sequential(task[s].jr)
    /\ \A i \in Persisted(results) : Sequential(results[i].jr)

\* A persisted live result whose second step is in progress after the first
\* one finished.
C16_Witness ==
    \E i \in Persisted(results) :
        /\ Len(results[i].jr.steps) = 2
        /\ results[i].jr.steps[1].finished_at
        /\ InProgress(results[i].jr) = {2}


\* ------------------------------------------------------------ step failure

\* The engine of slot s is past an operation error of a live run.
FailedLive(s) ==
    /\ ~task[s].jr.dry_run
    /\ task[s].pc \in {"final", "done"}
    /\ ~task[s].is_success

\* What is on disk once the engine has handled the failure of step k: step k
\* failed and finished, the result failed and finished, every later step never
\* started, unfinished and in status `untouched`.
FailureRecorded(s, untouched) ==
    LET k == task[s].jr.current_step_name
        jr == results[task[s].jr.id].jr
    IN  /\ \E e \in OpErrors \cup {ExitStatusError, WaitError} :
               task[s].errlog = <<ErrorInStep(k, e)>>
        /\ results[task[s].jr.id].file = "ok"
        /\ jr.steps[k].status = "failed"
        /\ jr.steps[k].finished_at
        /\ jr.finished_at
        /\ ~jr.is_success
        /\ \A i \in (k + 1)..Len(jr.steps) :
               /\ ~jr.steps[i].started_at
               /\ ~jr.steps[i].finished_at
               /\ jr.steps[i].status = untouched

\* C17: when an operation of step k fails in a live run the engine logs "Error
\* in step <name>: <err>", marks step k failed, marks the result failed and
\* finished, saves and stops; the later steps are never started and stay pending.
C17_FailureStopsRun == \A s \in RunSlots : FailedLive(s) => FailureRecorded(s, "pending")

\* The same with the status the steps are created with.
FailureStopsRunAsCreated == \A s \in RunSlots : FailedLive(s) => FailureRecorded(s, NewStep.status)

\* The first step of two failed in a live run.
FailureOfFirstStep ==
    \E s \in RunSlots : FailedLive(s) /\ task[s].jr.current_step_name = 1
                                      /\ Len(task[s].jr.steps) = 2

\* -------------------------------------------------------------- fresh result

\* C18: a result just constructed is running (neither success nor failure yet),
\* has no finished_at, every step pending with no started_at and no
\* finished_at, and current_step_name the first step or None without steps.
C18_FreshResult ==
    \A s \in RunSlots :
        sub[s].pc = "allocated"
            => LET jr == task[s].jr
               IN  /\ ~jr.finished_at
                   /\ \A k \in 1..Len(jr.steps) :
                          /\ jr.steps[k].status = "pending"
                          /\ ~jr.steps[k].started_at
                          /\ ~jr.steps[k].finished_at
                   /\ jr.current_step_name = IF Len(jr.steps) > 0 THEN 1 ELSE 0

\* The same with the status RunningScriptStep::default gives.
FreshResultAsCreated ==
    \A s \in RunSlots :
        sub[s].pc = "allocated"
            => LET jr == task[s].jr
               IN  /\ ~jr.finished_at
                   /\ ~jr.is_success
                   /\ \A k \in 1..Len(jr.steps) : jr.steps[k] = NewStep
                   /\ jr.current_step_name = IF Len(jr.steps) > 0 THEN 1 ELSE 0

\* ----------------------------------------------------- status before finish

\* Every step of the result finished with success.
AllStepsSucceeded(jr) ==
    /\ Len(jr.steps) > 0
    /\ \A k \in 1..Len(jr.steps) : jr.steps[k].finished_at /\ jr.steps[k].status = "success"

\* C19: in every persisted state of a result finished_at is set only when the
\* persisted status is already final, so whoever polls for finished_at reads
\* success for a run whose steps all succeeded.
C19_StatusBeforeFinishedAt ==
    \A i \in Persisted(results) :
        (results[i].jr.finished_at /\ AllStepsSucceeded(results[i].jr))
            => results[i].jr.is_success


\* ---------------------------------------------------------------- log records

\* The records of writer w among the records read back.
RECURSIVE RecordsOf(_, _)
RecordsOf(records, w) ==
    IF records = <<>> THEN <<>>
    ELSE IF Head(records).w = w THEN <<Head(records)>> \o RecordsOf(Tail(records), w)
    ELSE RecordsOf(Tail(records), w)

\* No add_log call is in progress.
LogQuiet == \A w \in Writers : logs.pc[w] = "idle"

\* C20: once the add_log calls of the engine, the two pumps and the observer
\* have returned, get_logs gives one record per call and each writer's records
\* in the order of its calls.
C20_OneRecordPerCall ==
    LogQuiet =>
        \A w \in Writers :
            RecordsOf(GetLogs(logs.file), w) = [n \in 1..logs.calls[w] |-> RecordText(w, n)]

\* The same for the writers that share the engine's logger.
OneRecordPerSharedCall ==
    (LogQuiet /\ logs.calls["observer"] = 0) =>
        \A w \in Writers :
            RecordsOf(GetLogs(logs.file), w) = [n \in 1..logs.calls[w] |-> RecordText(w, n)]


\* ------------------------------------------------------------------ webhook

\* The conditions under which a request is for a trigger.
RequestMatches(request, trigger) ==
    /\ trigger.type = "github"
    /\ request.signature.kind # "absent"
    /\ request.event.kind # "absent"
    /\ ParsePayload(request.body).ok
    /\ CredentialStore[trigger.secret_credential_id].state = "text"
    /\ request.signature =
           TextHeader(SignatureText(request.body,
                                    CredentialStore[trigger.secret_credential_id].value))
    /\ ParsePayload(request.body).full_name = trigger.url
    /\ \E i \in DOMAIN trigger.events : request.event = TextHeader(<<trigger.events[i]>>)

\* The positions of the triggers a request is for.
MatchingTriggers(request, jobs) ==
    UNION {{[job |-> j, trigger |-> t] :
               t \in {u \in DOMAIN jobs[j] : RequestMatches(request, jobs[j][u])}} :
           j \in DOMAIN jobs}

\* C21: the webhook handler submits a job for a Github trigger exactly when the
\* request has both headers, a body that parses, a Text secret credential, the
\* signature sha256=HMAC(body, secret), the trigger's repository and a listed
\* event; it does so once per such trigger, and a trigger that does not match
\* keeps no later trigger or job from being submitted.
C21_WebhookSubmits ==
    pout.done =>
        /\ {pout.executed[i] : i \in DOMAIN pout.executed} = MatchingTriggers(pin.request, pin.jobs)
        /\ Len(pout.executed) = Cardinality(MatchingTriggers(pin.request, pin.jobs))

\* The second job's second trigger was submitted after a Github trigger of the
\* first job and one of the same job that the request is not for.
C21_Witness ==
    /\ pout.done
    /\ pout.executed = <<[job |-> 2, trigger |-> 2]>>
    /\ Len(pin.jobs[1]) = 1
    /\ pin.jobs[1][1].type = "github"
    /\ pin.jobs[2][1].type = "github"


\* ---------------------------------------------------------- credential sync

\* C22: every credential stored as read-only before a sync is stored with the
\* same value after it: neither deleted nor overwritten, whatever settings.yml
\* lists.
C22_ReadOnlyKept ==
    pout.done =>
        \A id \in CredentialIds :
            (pin.store[id].present /\ pin.store[id].read_only)
                => pout.store[id] = pin.store[id]

\* The part that holds: a credential stored as read-only is still there.
ReadOnlyNotDeleted ==
    pout.done =>
        \A id \in CredentialIds :
            (pin.store[id].present /\ pin.store[id].read_only) => pout.store[id].present


\* -------------------------------------------------------- save before yield

\* The engine task of a live run is suspended at position pc and has not been
\* dropped.
SuspendedAt(s, pcs) == ~task[s].jr.dry_run /\ task[s].pc \in pcs

\* What is on disk is the result the engine holds.
SavedResult(s) == results[task[s].jr.id] = ValidFile(task[s].jr)

\* C23: at every await or yield of the engine task of a live run the persisted
\* result equals the in-memory one, also after a child pid has been removed.
C23_SavedBeforeYield ==
    \A s \in RunSlots : SuspendedAt(s, {"ready", "wait", "yield"}) => SavedResult(s)

\* The same for the yields of execute_script and the point before the first poll.
SavedBeforeWait == \A s \in RunSlots : SuspendedAt(s, {"ready", "wait"}) => SavedResult(s)


\* ---------------------------------------------------------- process runner

\* A sequence without its last element.
Front(q) == SubSeq(q, 1, Len(q) - 1)

\* The pid of the spawned child is appended and the result saved before
\* execute_script starts the pumps and waits.
PidRecordedAtSpawn ==
    [][\A s \in RunSlots :
         (task[s].pc = "exec" /\ task'[s].pc = "wait")
            => /\ created' = created + 1
               /\ task'[s].jr.child_process_ids = Append(task[s].jr.child_process_ids, created')
               /\ results'[task[s].jr.id] = ValidFile(task'[s].jr)]_vars

\* The engine has returned from execute_script.
LeftRunner(s) == task[s].pc = "wait" /\ task'[s].pc \notin {"wait", "cancelled"}

\* The pid is removed on every way out of execute_script.
PidRemovedOnReturn ==
    [][\A s \in RunSlots :
         LeftRunner(s) => task'[s].jr.child_process_ids = Front(task[s].jr.child_process_ids)]_vars

\* An error of execute_script is the failed wait or "Process exited with
\* status: <code>".
ExitReported(text) ==
    \A s \in RunSlots :
        (LeftRunner(s) /\ ~task'[s].is_success)
           => task'[s].errlog[Len(task'[s].errlog)] \in
                  {ErrorInStep(task[s].jr.current_step_name, e) : e \in {text, WaitError}}

\* C24: execute_script appends the child's pid and saves before the pumps
\* start, removes the pid on every way out (exit code 0, non-zero exit, failed
\* wait), and reports a non-zero exit as "Process exited with status: <code>".
C24_PidRecordedAndRemoved ==
    /\ PidRecordedAtSpawn
    /\ PidRemovedOnReturn
    /\ [][ExitReported("Process exited with status: 1")]_vars

\* The error text the code produces.
ExitReportedAsFormatted == [][ExitReported(ExitStatusError)]_vars


\* ------------------------------------------------------ recorded child pids

\* The result file of the run of slot s.
PersistedOf(s) == results[sub[s].id].jr

\* Slots whose run has a result file.
LiveSlots == {s \in RunSlots : sub[s].id \in Persisted(results)}

\* A recorded pid is on disk only while the engine waits for that child in
\* execute_script, or after the task was dropped there and before the cleanup
\* has saved.
PidsOnlyWhileRunning ==
    \A s \in LiveSlots :
        PersistedOf(s).child_process_ids # <<>>
            => \/ task[s].pc = "wait"
               \/ task[s].pc = "cancelled" /\ obs[s].pc # "done"

\* This step writes the result file of slot s from within finish_step: a step
\* of the result, or the result, becomes finished.
SavedByFinishStep(s) ==
    /\ s \in LiveSlots
    /\ results'[sub[s].id] # results[sub[s].id]
    /\ \/ ~PersistedOf(s).finished_at /\ results'[sub[s].id].jr.finished_at
       \/ \E k \in DOMAIN PersistedOf(s).steps :
              /\ ~PersistedOf(s).steps[k].finished_at
              /\ results'[sub[s].id].jr.steps[k].finished_at

\* Every state finish_step persists has no recorded pid.
NoPidsAfterFinishStep ==
    [][\A s \in RunSlots :
         SavedByFinishStep(s) => results'[sub[s].id].jr.child_process_ids = <<>>]_vars

\* The state the cancellation cleanup leaves has no recorded pid.
NoPidsAfterCleanup ==
    \A s \in LiveSlots :
        (task[s].pc = "cancelled" /\ obs[s].pc = "done")
            => PersistedOf(s).child_process_ids = <<>>

\* C25: in every persisted state child_process_ids is non-empty only while a
\* process of the current step is being run; every state persisted by
\* finish_step and the state persisted by the cancellation cleanup has it empty.
C25_PidsOnlyWhileRunning ==
    /\ []PidsOnlyWhileRunning
    /\ NoPidsAfterFinishStep
    /\ []NoPidsAfterCleanup


\* ----------------------------------------------------------- kill order

\* The processes above p in the process table.
RECURSIVE Ancestors(_, _)
Ancestors(par, p) == IF p \notin Pids THEN {} ELSE {par[p]} \cup Ancestors(par, par[p])

\* The kill loop of slot s runs in this step.
KillStep(s) == obs[s].pc = "loaded" /\ obs'[s].pc = "killed"

\* Every signalled process is signalled before each of its ancestors.
LeavesFirst(s) ==
    LET q == obs'[s].order
    IN  \A i, j \in DOMAIN q : q[j] \in Ancestors(parent, q[i]) => i < j

\* Every recorded pid that is alive is signalled, after everything below it.
RootLast(s) ==
    LET q == obs'[s].order
    IN  \A root \in Range(obs[s].jr.child_process_ids) \cap alive \cap obs[s].snap :
            \E j \in DOMAIN q :
                /\ q[j] = root
                /\ \A i \in DOMAIN q : root \in Ancestors(parent, q[i]) => i < j

\* C26: the cancellation cleanup signals the tree below a recorded pid
\* leaves-first: every descendant before each of its ancestors, the root last.
C26_KillLeavesFirst ==
    [][\A s \in RunSlots : KillStep(s) => LeavesFirst(s) /\ RootLast(s)]_vars

\* The part about the descendants.
KillDescendantsFirst == [][\A s \in RunSlots : KillStep(s) => LeavesFirst(s)]_vars


\* ------------------------------------------------------- step pointer

\* What finish_step has done to the pointer when it turned result b into a:
\* after a success of a step that is not the last the pointer is the next
\* position; after a success of the last step it stays and finished_at is set;
\* after a failure it stays on the failed step.
PointerAfterFinish(b, a) ==
    \A k \in DOMAIN b.steps :
        (~b.steps[k].finished_at /\ a.steps[k].finished_at)
            => /\ b.current_step_name = k
               /\ IF a.steps[k].status # "success"
                  THEN a.current_step_name = k /\ a.finished_at
                  ELSE IF k < Len(b.steps)
                  THEN a.current_step_name = k + 1 /\ ~a.finished_at
                  ELSE a.current_step_name = k /\ a.finished_at

\* In a finished result the pointer names the last step that was advanced to:
\* every step before it finished with success, no step after it was started.
PointerAtLastAdvanced(jr) ==
    jr.finished_at
        => /\ jr.current_step_name \in DOMAIN jr.steps
           /\ \A k \in DOMAIN jr.steps :
                  /\ k < jr.current_step_name
                        => jr.steps[k].finished_at /\ jr.steps[k].status = "success"
                  /\ k > jr.current_step_name => ~jr.steps[k].started_at

\* C27: finish_step(true) moves current_step_name to the next position and the
\* save of that call shows it; on the last step the pointer stays and
\* finished_at is set; finish_step(false) leaves the pointer on the failed
\* step; so in a finished result the pointer names the last step advanced to.
C27_PointerAdvance ==
    /\ [][\A s \in RunSlots :
            /\ PointerAfterFinish(task[s].jr, task'[s].jr)
            /\ (obs[s].pc = "killed" /\ obs'[s].pc = "finishing")
                   => PointerAfterFinish(obs[s].jr, obs'[s].jr)
            /\ (s \in LiveSlots /\ PersistedOf(s).id = results'[sub[s].id].jr.id)
                   => PointerAfterFinish(PersistedOf(s), results'[sub[s].id].jr)]_vars
    /\ [](\A s \in RunSlots :
            /\ PointerAtLastAdvanced(task[s].jr)
            /\ s \in LiveSlots => PointerAtLastAdvanced(PersistedOf(s)))

\* A result on disk finished on its second step after the pointer had moved
\* there from the first.
C27_Witness ==
    \E s \in LiveSlots :
        /\ Len(PersistedOf(s).steps) = 2
        /\ PersistedOf(s).finished_at
        /\ PersistedOf(s).current_step_name = 2
        /\ PersistedOf(s).steps[2].status = "success"
        /\ PersistedOf(s).steps[2].finished_at


\* ------------------------------------------------------- one-shot steps

\* Between result b and its later state a no step was started or finished a
\* second time and no finished step changed.
StepsOneShot(b, a) ==
    \A k \in DOMAIN b.steps \cap DOMAIN a.steps :
        /\ a.steps[k].starts <= 1
        /\ a.steps[k].finishes <= 1
        /\ b.steps[k].finished_at => a.steps[k] = b.steps[k]

\* C28: start() and finish() are applied at most once to each step, and a step
\* that has finished never changes its status or finished_at, in the engine's
\* result, in the observer's and on disk, also when the run is cancelled.
C28_StepsOneShot ==
    [][\A s \in RunSlots :
         /\ StepsOneShot(task[s].jr, task'[s].jr)
         /\ obs[s].pc \in {"loaded", "killed", "finishing"} => StepsOneShot(obs[s].jr, obs'[s].jr)
         /\ (s \in LiveSlots /\ results'[sub[s].id].file = "ok")
                => StepsOneShot(PersistedOf(s), results'[sub[s].id].jr)]_vars

\* A cancelled run after its cleanup: the first step finished by the engine,
\* the second by the observer.
C28_Witness ==
    \E s \in LiveSlots :
        /\ task[s].pc = "cancelled"
        /\ obs[s].pc = "done"
        /\ Len(PersistedOf(s).steps) = 2
        /\ PersistedOf(s).steps[1].finishes = 1
        /\ PersistedOf(s).steps[2].finishes = 1
        /\ PersistedOf(s).steps[2].starts = 1


\* -------------------------------------------------- observer after engine

\* The observer of slot s has read the result file.
ObserverActs(s) == obs[s].pc \in {"loaded", "killed", "finishing"}

\* C29: the observer reads and writes the result file only after the engine
\* task has concluded: once it has read the file the engine task takes no
\* step and saves nothing, and what the observer saved last is not
\* overwritten.
C29_ObserverAfterEngine ==
    /\ [](\A s \in RunSlots : ObserverActs(s) => task[s].pc = "cancelled")
    /\ [][\A s \in RunSlots :
            /\ task[s].pc = "cancelled" => task'[s] = task[s]
            /\ (ObserverActs(s) /\ results'[sub[s].id] # results[sub[s].id])
                   => /\ obs'[s] # obs[s]
                      /\ results'[sub[s].id] = ValidFile(obs'[s].jr)
            /\ (task[s].pc = "cancelled" /\ obs[s].pc = "done")
                   => results'[sub[s].id] = results[sub[s].id]]_vars

\* The cleanup of a cancelled run has saved its final state.
C29_Witness ==
    \E s \in LiveSlots :
        /\ task[s].pc = "cancelled"
        /\ obs[s].pc = "done"
        /\ PersistedOf(s) = obs[s].jr
        /\ PersistedOf(s).finished_at
        /\ task[s].jr # obs[s].jr

\* ---------------------------------------------- command failures by kind

\* A command the operation ran was not spawned or exited non-zero.
CommandFailed == pout.done /\ \E i \in 1..pout.ran : pin.outcomes[i] # "exit_zero"

\* The operation returned an error, its step is Failed and the result failed.
StepAndResultFailed ==
    /\ ~pout.res.ok
    /\ pout.jr.steps[1].status = "failed"
    /\ pout.jr.steps[1].finished_at
    /\ ~pout.jr.is_success

\* The operation returned Ok(()), its step is Success and the result succeeded.
StepAndResultSucceeded ==
    /\ pout.res.ok
    /\ pout.jr.steps[1].status = "success"
    /\ pout.jr.is_success

\* C30: for every operation kind that runs a process except docker-stop, a
\* command that is not spawned or exits non-zero makes the operation return
\* an error, so the step and the result are Failed; docker-stop, and only
\* docker-stop, ignores the failures of its commands and succeeds.
C30_CommandFailureFailsStep ==
    CommandFailed =>
        IF pin.kind = "docker-stop" THEN StepAndResultSucceeded ELSE StepAndResultFailed

\* bash, git-clone and docker-run return the error of the first command that
\* fails, and the step and the result are Failed.
FailurePropagatedByBashGitRun ==
    (CommandFailed /\ pin.kind \in {"bash", "git-clone", "docker-run"})
        => /\ StepAndResultFailed
           /\ pout.res = ExecuteCommand(pin.outcomes[pout.ran])

\* docker-stop runs both of its commands and succeeds whatever they do.
DockerStopIgnoresFailures ==
    (pout.done /\ pin.kind = "docker-stop" /\ ~pin.dry_run)
        => pout.ran = 2 /\ StepAndResultSucceeded

\* A docker-build whose command failed has been run.
DockerBuildFailureRun ==
    CommandFailed /\ pin.kind = "docker-build"

\* ------------------------------------------------ substitution terminates

\* C35: substitute_parameters returns, with a result or an error, for every
\* template and parameter map, also when a value holds "$(" or names its own
\* key: the loop does not go on replacing without end.
C35_SubstituteTerminates ==
    pout.done => pout.result.kind # "NoReturn"

\* A value of the map holds the opening of a token.
ValueHoldsToken ==
    \E k \in DOMAIN pin.parameters :
        Find(RenderValue(pin.parameters[k]), Open) # 0

\* With no "$(" in any value the call returns.
ReturnsWithPlainValues ==
    (pout.done /\ ~ValueHoldsToken) => pout.result.kind # "NoReturn"

\* A value that names its own key was substituted and the call has not
\* returned.
SelfReferenceLoops ==
    /\ pout.done
    /\ pout.result.kind = "NoReturn"
    /\ <<"j">> \in DOMAIN pin.parameters
    /\ pin.parameters[<<"j">>] = StringValue(Token(<<"j">>))
    /\ pin.template = Token(<<"j">>)

\* ------------------------------------------------------- bash command log

\* Substitution of the code succeeded with a single text.
BashSubstituted ==
    SubstituteParameters(pin.code, pin.parameters, FALSE).kind = "Single"

NonEmpty(lines) == SelectSeq(lines, LAMBDA l : l # <<>>)

\* The commands an original line produces, each paired with that line; the
\* line is substituted with its line break, as a part of the code.
ProducedBy(original) ==
    LET r == SubstituteParameters(Append(original, NewlineChar), pin.parameters, FALSE)
        produced == NonEmpty(StrLines(r.s))
    IN  [n \in 1..Len(produced) |-> <<original, produced[n]>>]

\* The commands of the code in order, each paired with the original line
\* that produced it.
RECURSIVE ProducedFrom(_)
ProducedFrom(original_lines) ==
    IF original_lines = <<>> THEN <<>>
    ELSE ProducedBy(Head(original_lines)) \o ProducedFrom(Tail(original_lines))

\* The commands run, each paired with the line logged before it.
LoggedWithCommand ==
    [n \in 1..Len(pout.out.commands) |-> <<pout.out.logged[n], pout.out.commands[n]>>]

\* C31: whenever substitution of the code succeeds, the bash operation ends
\* without indexing past the original lines, runs each command the code
\* produces and logs before each one the original line that produced it,
\* also when a substituted value is empty or holds a line break.
C31_BashLogsOriginalLine ==
    (pout.done /\ BashSubstituted) =>
        /\ pout.out.kind = "Ok"
        /\ Len(pout.out.logged) = Len(ProducedFrom(StrLines(pin.code)))
        /\ ~pin.dry_run => LoggedWithCommand = ProducedFrom(StrLines(pin.code))

\* No value of the map holds a line break.
NoLineBreakInValues ==
    \A k \in DOMAIN pin.parameters :
        \A n \in 1..Len(RenderValue(pin.parameters[k])) :
            RenderValue(pin.parameters[k])[n] # NewlineChar

\* With no line break in any value the operation ends with Ok and every
\* command is logged with the line that produced it; an empty value is no
\* exception.
BashLogsOriginalWithoutLineBreak ==
    (pout.done /\ BashSubstituted /\ NoLineBreakInValues) =>
        /\ pout.out.kind = "Ok"
        /\ Len(pout.out.logged) = Len(ProducedFrom(StrLines(pin.code)))
        /\ ~pin.dry_run => LoggedWithCommand = ProducedFrom(StrLines(pin.code))

\* A value of two lines made the loop index past the original lines.
BashIndexPastOriginal ==
    /\ pout.done
    /\ pout.out.kind = "Panic"
    /\ pin.code = Token(<<"k">>)

\* -------------------------------------------------- output before finish

\* A non-empty line the child wrote is still in a pipe, not in the log.
LineNotForwarded ==
    \E stream \in Streams : \E n \in 1..Len(pump.pipe[stream]) : pump.pipe[stream][n] # <<>>

\* C32: when the persisted result of a successful run shows finished_at, the
\* log holds every non-empty line its processes wrote: the step is not
\* finished before both pumps have forwarded all their lines.
C32_OutputLoggedBeforeFinish ==
    (pump.saved.finished_at /\ pump.status = 0) => ~LineNotForwarded

\* The engine does not go on before the child has exited.
FinishAfterChildExit ==
    pump.t.pc \in {"yield", "final", "done"} => pump.child = "exited"

\* The run is persisted as finished and successful while "hello" is unread.
FinishedBeforeForwarded ==
    /\ pump.saved.finished_at
    /\ pump.saved.is_success
    /\ pump.log = <<>>
    /\ pump.pipe["stdout"] = <<<<"h", "e", "l", "l", "o">>>>

\* ------------------------------------------------------ webhook response

\* C33: the webhook endpoint answers 200 whatever happens while it evaluates
\* jobs and triggers, a failure to list the jobs included.
C33_WebhookAlways200 ==
    pout.done => pout.response = "200"

\* With the jobs listed and headers that are visible ASCII the answer is 200,
\* whatever the triggers, the body, the credential and the signature are.
WebhookAnswers200WhenListed ==
    (pout.done /\ pin.listed /\ pin.request.signature.kind # "opaque"
              /\ pin.request.event.kind # "opaque")
        => pout.response = "200"

\* Job::get_all failed and the request was answered.
WebhookListingFailed ==
    pout.done /\ ~pin.listed /\ pout.response = "500"

\* ----------------------------------------------------------- sync twice

\* The sync has run twice in a row.
SyncedTwice == pout.runs = 2

DistinctEntryIds ==
    \A m, n \in 1..Len(pin.settings) : pin.settings[m].id = pin.settings[n].id => m = n

SecondSyncUpdates ==
    /\ SyncedTwice
    /\ pout.log = <<"Updated", "Updated">>
    /\ pout.store = pout.before

\* ------------------------------------------------- keys of the merged map

\* C37: every key of the map merged_parameters returns is "parameters.<name>"
\* for a parameter the script declares; a caller-supplied value is the value
\* only of a script parameter the Job also defines, and a caller-supplied
\* entry for a name the script does not declare appears under no key.
C37_MergedKeysDeclared ==
    pout.merged =>
        /\ \A key \in DOMAIN pout.map :
               \E i \in 1..Len(pin.script) : key = <<"parameters.", pin.script[i].name>>
        /\ \A p \in ParamNames :
               LET key == <<"parameters.", p>>
               IN  (key \in DOMAIN pout.map /\ pout.map[key] \in CallerValues)
                       => /\ p \in DOMAIN pin.provided
                          /\ JobEntries(p) # {}
                          /\ ScriptEntries(p) # {}
        /\ \A n \in DOMAIN pin.provided :
               ScriptEntries(n) = {} =>
                   \A key \in DOMAIN pout.map : key[2] # n

\* The caller supplied p, which the script declares and the Job defines, and
\* q, which the script does not declare: the map holds the caller's value
\* under "parameters.p" and nothing else.
C37_Witness ==
    /\ pout.merged
    /\ DOMAIN pin.provided = {"p", "q"}
    /\ ScriptEntries("q") = {}
    /\ JobEntries("q") # {}
    /\ JobEntries("p") # {}
    /\ DOMAIN pout.map = {<<"parameters.", "p">>}
    /\ pout.map[<<"parameters.", "p">>] = "c"

\* ------------------------------------------------------ runs come to an end

\* The result file of slot s shows finished_at.
PersistedFinished(s) ==
    /\ sub[s].id \in Ids
    /\ Get(results, sub[s].id) = "ok"
    /\ results[sub[s].id].jr.finished_at

\* C36: every live run that was submitted and is never stopped, and whose
\* operations all terminate, eventually has a persisted result with
\* finished_at set, whatever the number of steps of the script, zero
\* included; no step is started more than once on the way.
C36_RunEventuallyFinished ==
    /\ \A s \in RunSlots :
          (task[s].pc = "ready" /\ ~task[s].jr.dry_run)
              ~> (task[s].abort \/ PersistedFinished(s))
    /\ [](\A s \in RunSlots : \A k \in DOMAIN task[s].jr.steps : task[s].jr.steps[k].starts <= 1)

\* The same for scripts with at least one step.
RunWithStepsEventuallyFinished ==
    \A s \in RunSlots :
        (task[s].pc = "ready" /\ ~task[s].jr.dry_run /\ Len(task[s].jr.steps) > 0)
            ~> (task[s].abort \/ PersistedFinished(s))

\* The engine task of a live run of a script without steps has returned and
\* the result file shows no finished_at.
ZeroStepsLeftRunning ==
    \E s \in LiveSlots :
        /\ task[s].pc = "done"
        /\ ~task[s].abort
        /\ Len(task[s].jr.steps) = 0
        /\ ~PersistedOf(s).finished_at

\* ------------------------------------------------ live children recorded

\* The processes the run of slot s has spawned itself (the shells of
\* execute_command, children of the server) that are alive.
LiveChildren(s) == {p \in alive : owner[p] = s /\ parent[p] = ServerPid}

\* The pids in the result file of slot s.
PersistedPids(s) ==
    IF sub[s].id \in Ids /\ Get(results, sub[s].id) = "ok"
    THEN Range(results[sub[s].id].jr.child_process_ids)
    ELSE {}

\* C38: at every suspension point of the engine task of a live run, every
\* process the run has spawned that is still alive has its pid in the
\* persisted child_process_ids; so the result the observer reloads after a
\* cancellation lists every child that was alive when it looked.
C38_LiveChildrenRecorded ==
    \A s \in RunSlots :
        /\ (task[s].pc \in {"ready", "wait", "yield", "cancelled"} /\ ~task[s].jr.dry_run
                /\ obs[s].pc \in {"waiting", "loaded"})
               => LiveChildren(s) \subseteq PersistedPids(s)
        /\ obs[s].pc = "loaded"
               => {p \in obs[s].snap : owner[p] = s /\ parent[p] = ServerPid}
                      \subseteq Range(obs[s].jr.child_process_ids)

\* The run was cancelled while a command was running whose shell had forked,
\* and the observer has reloaded a result that lists the live shell.
C38_Witness ==
    \E s \in RunSlots :
        /\ task[s].pc = "cancelled"
        /\ obs[s].pc = "loaded"
        /\ LiveChildren(s) # {}
        /\ Len(obs[s].jr.child_process_ids) = 1
        /\ LiveChildren(s) = Range(obs[s].jr.child_process_ids)
        /\ created > 1

\* ------------------------------------------------- stop after the end

\* The engine of slot s has persisted a terminal result: finished_at is in the
\* file and the task was not cancelled.
EngineFinished(s) == PersistedFinished(s) /\ task[s].pc # "cancelled"

\* C39: once the engine has persisted a terminal result, a stop_job changes
\* nothing: the task is not cancelled, the cleanup of the observer does not
\* run, and the file changes only by the engine's own final save and not at
\* all after the engine has returned.
C39_StopAfterTerminal ==
    [][\A s \in RunSlots :
          EngineFinished(s) =>
              /\ task'[s].pc # "cancelled"
              /\ obs'[s].pc \in {"waiting", "done"}
              /\ results'[sub[s].id] # results[sub[s].id]
                     => /\ task[s].pc = "final"
                        /\ task'[s].pc = "done"
                        /\ results'[sub[s].id] = ValidFile(task'[s].jr)
              /\ results'[sub[s].id].jr.finished_at
              /\ results'[sub[s].id].jr.steps = results[sub[s].id].jr.steps]_vars

\* stop_job has returned Ok for a run that the engine finished with success,
\* the observer has seen the task return, and the file is what the engine
\* wrote.
C39_Witness ==
    \E s \in RunSlots :
        /\ PersistedFinished(s)
        /\ task[s].pc = "done"
        /\ task[s].abort
        /\ obs[s].pc = "done"
        /\ lastStop.ok
        /\ lastStop.id = sub[s].id
        /\ results[sub[s].id] = ValidFile(task[s].jr)
        /\ task[s].jr.is_success
        /\ Len(task[s].jr.steps) > 0

\* ------------------------------------------------ job written after validation

\* The job validates: its script exists, no required parameter is missing and
\* no step fails in the dry run.
JobIsValid == JobValidate(pin.job, pin.script).ok

\* C40: Job::sync writes the job file only after the job's validation has
\* succeeded; when it fails the error is returned and the file is as it was;
\* when the stored job equals the new one on name, parameters, triggers and
\* script_id nothing is written.
C40_JobWrittenAfterValidation ==
    pout.done =>
        /\ pout.out.file # pin.stored => JobIsValid
        /\ ~JobIsValid =>
               /\ ~pout.out.ok
               /\ pout.out.err = JobValidate(pin.job, pin.script).err
               /\ pout.out.file = pin.stored
        /\ (pin.stored.file = "ok" /\ ~NeedsUpdate(pin.stored, pin.job))
               => pout.out.file = pin.stored
        /\ (JobIsValid /\ pin.stored.file = "none") => pout.out.file = pin.job

\* A job that differs from the stored one failed the dry run of its second
\* step: the error is returned and the stored job is still there.
C40_Witness ==
    /\ pout.done
    /\ pin.stored.file = "ok"
    /\ NeedsUpdate(pin.stored, pin.job)
    /\ pin.script.present
    /\ pin.script.fails = <<FALSE, TRUE>>
    /\ ValidateParameters(pin.job.parameters, pin.script.parameters).ok
    /\ ~pout.out.ok
    /\ pout.out.err = ErrorInStep(2, "Parameter 'missing.param' not found")
    /\ pout.out.file = pin.stored

====
